---- MODULE Spec2Model ----
(***************************************************************************)
(* State-machine model of the RESPlateForm back end (Django + DRF):        *)
(* the SystemConfig, AdCampaign, Message, Property/Listing, MapCluster and *)
(* User records, the request handlers that write them, the external cache  *)
(* they memoize responses in, and the bounding-box proximity filters.      *)
(* Requests run one at a time: every action is one whole request (or one   *)
(* whole model method).                                                    *)
(***************************************************************************)
EXTENDS Integers, FiniteSets, Sequences, TLC

VARIABLES
    configs,     \* SystemConfig table: config_id -> is_active
    campaigns,   \* AdCampaign table: campaign_id -> row
    messages,    \* Message table: message_id -> row
    properties,  \* Property table: property_id -> row (owner, address)
    listings,    \* Listing table: listing_id -> row
    users,       \* User table: user_id -> row (profile, primary location)
    userProps,   \* UserProperty table: pk -> row
    now,         \* timezone.now(), a logical clock
    clusters,    \* MapCluster table: cluster_id -> row
    cache,       \* the external cache (Redis): key -> stored value
    savedMapViews, \* SavedMapView table: pk -> row
    procs,       \* requests in flight, step by step: process -> local state
    resp         \* the last request: operation, requester, target, response

vars == <<configs, campaigns, messages, properties, listings, users,
          userProps, now, clusters, cache, savedMapViews, procs,
          resp>>

---------------------------------------------------------------------------
(* Bounds of the model *)

NumConfigs == 3
NumCampaigns == 1
MaxAmount == 1
NumMessages == 2
MaxTime == 2
NumListings == 2
NumUserProps == 1
MaxGeoRecords == 2
MaxRadius == 5
NumClusters == 1
NumMapViews == 1
NumProcs == 2
MaxCount == 1

---------------------------------------------------------------------------
(* Requesters *)

\* request.user of an unauthenticated request (AnonymousUser)
Anon == "anon"

UserIds == {"alice", "bob", "carol"}

\* the users stored with is_staff = True in the initial state
StaffIds == {"carol"}

Requesters == UserIds \cup {Anon}

\* request.user is a stored user who could log in (a usable password) and
\* is still loaded from the session (is_active = True)
is_authenticated(who) ==
    who \in DOMAIN users /\ users[who].is_active /\ users[who].password

\* request.user.is_staff
is_staff(who) == who \in DOMAIN users /\ users[who].is_staff

\* a permission check that lets every request through
AllowAnyRequester(who) == TRUE

\* rest_framework.permissions.IsAuthenticated
IsAuthenticated(who) == is_authenticated(who)

\* rest_framework.permissions.IsAdminUser
IsAdminUser(who) == is_authenticated(who) /\ is_staff(who)

\* the record of a request and its response
Resp(op, who, id, status, info) ==
    [op |-> op, who |-> who, id |-> id, status |-> status, info |-> info]

NoInfo == [none |-> TRUE]

\* a NULL coordinate pair (no address, no primary location)
NoPoint == [none |-> TRUE]

---------------------------------------------------------------------------
(* SystemConfig: main/models.py *)

ConfigIds == 1..NumConfigs

\* the rows with is_active = True
ActiveConfigs == {i \in DOMAIN configs : configs[i]}

\* a save that writes the row without deactivating the others
SystemConfig_save_no_deactivate(tbl, id, active) ==
    [i \in DOMAIN tbl \cup {id} |-> IF i = id THEN active ELSE tbl[i]]

\* SystemConfig.save: when the saved row is active, every other active row
\* is updated to inactive, then the row itself is written
SystemConfig_save(tbl, id, active) ==
    LET deactivated == IF active
                       THEN [i \in DOMAIN tbl |->
                               IF tbl[i] /\ i # id THEN FALSE ELSE tbl[i]]
                       ELSE tbl
    IN  [i \in DOMAIN deactivated \cup {id} |->
            IF i = id THEN active ELSE deactivated[i]]

\* how many other rows a save of (id, active) deactivates
Deactivated(tbl, id, active) ==
    IF active THEN Cardinality({i \in DOMAIN tbl : tbl[i] /\ i # id}) ELSE 0

OtherTablesUnchangedConfig ==
    UNCHANGED <<campaigns, messages, properties, listings, users, userProps, now,
                   clusters, cache, savedMapViews, procs>>

\* POST api/system-config/
SystemConfigListCreateAPIView_post(who, id, active) ==
    /\ IsAdminUser(who) => id \notin DOMAIN configs
    /\ IF ~IsAdminUser(who)
       THEN /\ resp' = Resp("config_create", who, id, 403, NoInfo)
            /\ UNCHANGED configs
       ELSE /\ configs' = SystemConfig_save(configs, id, active)
            /\ resp' = Resp("config_create", who, id, 201,
                            [deactivated |-> Deactivated(configs, id, active)])
    /\ OtherTablesUnchangedConfig

\* PUT/PATCH api/system-config/<config_id>/
SystemConfigDetailAPIView_update(who, id, active) ==
    /\ IF ~IsAdminUser(who)
       THEN /\ resp' = Resp("config_update", who, id, 403, NoInfo)
            /\ UNCHANGED configs
       ELSE IF id \notin DOMAIN configs
       THEN /\ resp' = Resp("config_update", who, id, 404, NoInfo)
            /\ UNCHANGED configs
       ELSE /\ configs' = SystemConfig_save(configs, id, active)
            /\ resp' = Resp("config_update", who, id, 200,
                            [deactivated |-> Deactivated(configs, id, active)])
    /\ OtherTablesUnchangedConfig

\* DELETE api/system-config/<config_id>/
SystemConfigDetailAPIView_destroy(who, id) ==
    /\ IF ~IsAdminUser(who)
       THEN /\ resp' = Resp("config_delete", who, id, 403, NoInfo)
            /\ UNCHANGED configs
       ELSE IF id \notin DOMAIN configs
       THEN /\ resp' = Resp("config_delete", who, id, 404, NoInfo)
            /\ UNCHANGED configs
       ELSE /\ configs' = [i \in DOMAIN configs \ {id} |-> configs[i]]
            /\ resp' = Resp("config_delete", who, id, 204, NoInfo)
    /\ OtherTablesUnchangedConfig

\* AdminRequiredMixin: the response of a request that fails test_func
AdminRequiredDenied(who) == IF is_authenticated(who) THEN 403 ELSE 302

\* AdminRequiredMixin.test_func: request.user.is_staff (False for AnonymousUser)
AdminRequiredMixin_test_func(who) == is_authenticated(who) /\ is_staff(who)

\* POST system-config/create/ (CreateView: ModelForm.save inserts a new row)
SystemConfigCreateView_post(who, id, active) ==
    /\ AdminRequiredMixin_test_func(who) => id \notin DOMAIN configs
    /\ IF ~AdminRequiredMixin_test_func(who)
       THEN /\ resp' = Resp("config_form", who, id, AdminRequiredDenied(who), NoInfo)
            /\ UNCHANGED configs
       ELSE /\ configs' = SystemConfig_save(configs, id, active)
            /\ resp' = Resp("config_form", who, id, 302,
                            [deactivated |-> Deactivated(configs, id, active)])
    /\ OtherTablesUnchangedConfig

\* POST system-config/<pk>/update/ (UpdateView: get_object, then ModelForm.save)
SystemConfigUpdateView_post(who, id, active) ==
    /\ IF ~AdminRequiredMixin_test_func(who)
       THEN /\ resp' = Resp("config_form", who, id, AdminRequiredDenied(who), NoInfo)
            /\ UNCHANGED configs
       ELSE IF id \notin DOMAIN configs
       THEN /\ resp' = Resp("config_form", who, id, 404, NoInfo)
            /\ UNCHANGED configs
       ELSE /\ configs' = SystemConfig_save(configs, id, active)
            /\ resp' = Resp("config_form", who, id, 302,
                            [deactivated |-> Deactivated(configs, id, active)])
    /\ OtherTablesUnchangedConfig

NextConfig ==
    \E who \in Requesters, id \in ConfigIds :
        \/ \E active \in BOOLEAN : SystemConfigListCreateAPIView_post(who, id, active)
        \/ \E active \in BOOLEAN : SystemConfigDetailAPIView_update(who, id, active)
        \/ SystemConfigDetailAPIView_destroy(who, id)
        \/ \E active \in BOOLEAN : SystemConfigCreateView_post(who, id, active)
        \/ \E active \in BOOLEAN : SystemConfigUpdateView_post(who, id, active)

---------------------------------------------------------------------------
(* AdCampaign: main/models.py, main/views.py, main/forms.py *)

CampaignIds == 1..NumCampaigns

Amounts == 0..MaxAmount

\* Python values of the money fields of an in-memory instance
Decimal(v) == [k |-> "Decimal", v |-> v]
float(v) == [k |-> "float", v |-> v]
None == [k |-> "None", v |-> 0]

\* total_spent = DecimalField(default=0.0): an instance built without
\* total_spent holds the float 0.0
Default_total_spent == float(0)

\* a save that computes remaining_budget only when none was supplied
AdCampaign_save_keep_supplied(inst) ==
    IF inst.budget.k # "None" /\ inst.total_spent.k # "None"
    THEN IF inst.budget.k # inst.total_spent.k
         THEN [result |-> "TypeError", inst |-> inst]
         ELSE [result |-> "saved",
               inst |-> IF inst.remaining_budget.k = "None"
                        THEN [inst EXCEPT !.remaining_budget =
                                 [k |-> inst.budget.k,
                                  v |-> inst.budget.v - inst.total_spent.v]]
                        ELSE inst]
    ELSE [result |-> "IntegrityError", inst |-> inst]

\* AdCampaign.save: remaining_budget = budget - total_spent, then the row
\* write.  Decimal - float raises TypeError; a None budget or total_spent
\* skips the computation and the NOT NULL column rejects the write.
AdCampaign_save(inst) ==
    IF inst.budget.k # "None" /\ inst.total_spent.k # "None"
    THEN IF inst.budget.k # inst.total_spent.k
         THEN [result |-> "TypeError", inst |-> inst]
         ELSE [result |-> "saved",
               inst |-> [inst EXCEPT !.remaining_budget =
                            [k |-> inst.budget.k,
                             v |-> inst.budget.v - inst.total_spent.v]]]
    ELSE [result |-> "IntegrityError", inst |-> inst]

\* the stored row of a saved instance (DecimalField columns)
CampaignRow(inst) ==
    [user |-> inst.user, budget |-> inst.budget.v,
     total_spent |-> inst.total_spent.v,
     remaining_budget |-> inst.remaining_budget.v]

\* the instance loaded from a stored row: every money field is a Decimal
CampaignInstance(row) ==
    [user |-> row.user, budget |-> Decimal(row.budget),
     total_spent |-> Decimal(row.total_spent),
     remaining_budget |-> Decimal(row.remaining_budget)]

\* the table after <id> is written with the outcome of a save
CampaignsAfter(id, saved) ==
    IF saved.result = "saved"
    THEN [i \in DOMAIN campaigns \cup {id} |->
            IF i = id THEN CampaignRow(saved.inst) ELSE campaigns[i]]
    ELSE campaigns

OtherTablesUnchangedCampaign ==
    UNCHANGED <<configs, messages, properties, listings, users, userProps, now,
                   clusters, cache, savedMapViews, procs>>

\* AdCampaign.objects.filter(user=request.user)
CampaignQueryset(who) == {i \in DOMAIN campaigns : campaigns[i].user = who}

\* POST api/ad-campaigns/ : budget is required, total_spent and
\* remaining_budget are optional fields of the serializer
AdCampaignListCreateAPIView_post(who, id, budget, total_spent, remaining) ==
    /\ IsAuthenticated(who) => id \notin DOMAIN campaigns
    /\ IF ~IsAuthenticated(who)
       THEN /\ resp' = Resp("campaign_create", who, id, 403, NoInfo)
            /\ UNCHANGED campaigns
       ELSE LET saved == AdCampaign_save([user |-> who, budget |-> budget,
                                          total_spent |-> total_spent,
                                          remaining_budget |-> remaining])
            IN  /\ campaigns' = CampaignsAfter(id, saved)
                /\ resp' = Resp("campaign_create", who, id,
                                IF saved.result = "saved" THEN 201 ELSE 500,
                                [result |-> saved.result, supplied |-> remaining])
    /\ OtherTablesUnchangedCampaign

\* PUT/PATCH api/ad-campaigns/<campaign_id>/
AdCampaignDetailAPIView_update(who, id, budget, total_spent, remaining) ==
    /\ IF ~IsAuthenticated(who)
       THEN /\ resp' = Resp("campaign_update", who, id, 403, NoInfo)
            /\ UNCHANGED campaigns
       ELSE IF id \notin CampaignQueryset(who)
       THEN /\ resp' = Resp("campaign_update", who, id, 404, NoInfo)
            /\ UNCHANGED campaigns
       ELSE LET loaded == CampaignInstance(campaigns[id])
                saved == AdCampaign_save(
                    [loaded EXCEPT !.budget = budget,
                                   !.total_spent = total_spent,
                                   !.remaining_budget =
                                       IF remaining.k = "None"
                                       THEN loaded.remaining_budget
                                       ELSE remaining])
            IN  /\ campaigns' = CampaignsAfter(id, saved)
                /\ resp' = Resp("campaign_update", who, id,
                                IF saved.result = "saved" THEN 200 ELSE 500,
                                [result |-> saved.result, supplied |-> remaining])
    /\ OtherTablesUnchangedCampaign

\* DELETE api/ad-campaigns/<campaign_id>/
AdCampaignDetailAPIView_destroy(who, id) ==
    /\ IF ~IsAuthenticated(who)
       THEN /\ resp' = Resp("campaign_delete", who, id, 403, NoInfo)
            /\ UNCHANGED campaigns
       ELSE IF id \notin CampaignQueryset(who)
       THEN /\ resp' = Resp("campaign_delete", who, id, 404, NoInfo)
            /\ UNCHANGED campaigns
       ELSE /\ campaigns' = [i \in DOMAIN campaigns \ {id} |-> campaigns[i]]
            /\ resp' = Resp("campaign_delete", who, id, 204, NoInfo)
    /\ OtherTablesUnchangedCampaign

\* POST ad-campaigns/create/ : AdCampaignForm excludes total_spent and
\* remaining_budget, so the new instance holds the field defaults
AdCampaignCreateView_post(who, id, budget) ==
    /\ is_authenticated(who) => id \notin DOMAIN campaigns
    /\ IF ~is_authenticated(who)
       THEN /\ resp' = Resp("campaign_form_create", who, id, 302, NoInfo)
            /\ UNCHANGED campaigns
       ELSE LET saved == AdCampaign_save([user |-> who, budget |-> budget,
                                          total_spent |-> Default_total_spent,
                                          remaining_budget |-> None])
            IN  /\ campaigns' = CampaignsAfter(id, saved)
                /\ resp' = Resp("campaign_form_create", who, id,
                                IF saved.result = "saved" THEN 302 ELSE 500,
                                [result |-> saved.result, supplied |-> None])
    /\ OtherTablesUnchangedCampaign

\* POST ad-campaigns/<pk>/update/ : model = AdCampaign, any row by pk
AdCampaignUpdateView_post(who, id, budget) ==
    /\ IF ~is_authenticated(who)
       THEN /\ resp' = Resp("campaign_form_update", who, id, 302, NoInfo)
            /\ UNCHANGED campaigns
       ELSE IF id \notin DOMAIN campaigns
       THEN /\ resp' = Resp("campaign_form_update", who, id, 404, NoInfo)
            /\ UNCHANGED campaigns
       ELSE LET loaded == CampaignInstance(campaigns[id])
                saved == AdCampaign_save([loaded EXCEPT !.budget = budget])
            IN  /\ campaigns' = CampaignsAfter(id, saved)
                /\ resp' = Resp("campaign_form_update", who, id,
                                IF saved.result = "saved" THEN 302 ELSE 500,
                                [result |-> saved.result, supplied |-> None])
    /\ OtherTablesUnchangedCampaign

\* the requesters of the campaign endpoints in this model
CampaignRequesters == {"alice", "bob", Anon}

\* money values a serializer or form hands over
DecimalInputs == {Decimal(v) : v \in Amounts}

NextCampaign ==
    \E who \in CampaignRequesters, id \in CampaignIds, budget \in DecimalInputs :
        \/ \E total_spent \in DecimalInputs \cup {Default_total_spent},
              remaining \in DecimalInputs \cup {None} :
              AdCampaignListCreateAPIView_post(who, id, budget, total_spent, remaining)
        \/ \E total_spent \in DecimalInputs, remaining \in DecimalInputs \cup {None} :
              AdCampaignDetailAPIView_update(who, id, budget, total_spent, remaining)
        \/ AdCampaignDetailAPIView_destroy(who, id)
        \/ AdCampaignCreateView_post(who, id, budget)
        \/ AdCampaignUpdateView_post(who, id, budget)

---------------------------------------------------------------------------
(* Message: main/models.py, main/views.py *)

MessageIds == 1..NumMessages

\* read_at = NULL
NullTime == 0

\* a mark_as_read that sets the flag and forgets the timestamp
Message_mark_as_read_no_stamp(row, t) ==
    IF ~row.is_read
    THEN [row |-> [row EXCEPT !.is_read = TRUE], wrote |-> TRUE]
    ELSE [row |-> row, wrote |-> FALSE]

\* a mark_as_read that stamps read_at on every call
Message_mark_as_read_unguarded(row, t) ==
    [row |-> [row EXCEPT !.is_read = TRUE, !.read_at = t], wrote |-> TRUE]

\* Message.mark_as_read at time t: the row afterwards, and whether save() ran
Message_mark_as_read(row, t) ==
    IF ~row.is_read
    THEN [row |-> [row EXCEPT !.is_read = TRUE, !.read_at = t], wrote |-> TRUE]
    ELSE [row |-> row, wrote |-> FALSE]

\* Message.objects.filter(sender=user) | Message.objects.filter(recipient=user)
MessageQueryset(who) ==
    {i \in DOMAIN messages : messages[i].sender = who \/ messages[i].recipient = who}

OtherTablesUnchangedMessage ==
    UNCHANGED <<configs, campaigns, properties, listings, users, userProps,
               clusters, cache, savedMapViews, procs>>

\* the clock advances between requests
Tick ==
    /\ now < MaxTime
    /\ now' = now + 1
    /\ resp' = Resp("tick", Anon, 0, 0, NoInfo)
    /\ UNCHANGED messages
    /\ OtherTablesUnchangedMessage

\* POST api/messages/ : the serializer exposes every field, the view sets sender
MessageListCreateAPIView_post(who, id, recipient, is_read) ==
    /\ IsAuthenticated(who) => id \notin DOMAIN messages
    /\ IF ~IsAuthenticated(who)
       THEN /\ resp' = Resp("message_create", who, id, 403, NoInfo)
            /\ UNCHANGED messages
       ELSE /\ messages' = [i \in DOMAIN messages \cup {id} |->
                              IF i = id
                              THEN [sender |-> who, recipient |-> recipient,
                                    is_read |-> is_read, read_at |-> NullTime]
                              ELSE messages[i]]
            /\ resp' = Resp("message_create", who, id, 201, NoInfo)
    /\ UNCHANGED now
    /\ OtherTablesUnchangedMessage

\* POST messages/create/ : MessageForm carries recipient, subject, body,
\* message_type and attachment; form_valid sets the sender
MessageCreateView_post(who, id, recipient) ==
    /\ is_authenticated(who) => id \notin DOMAIN messages
    /\ IF ~is_authenticated(who)
       THEN /\ resp' = Resp("message_form", who, id, 302, NoInfo)
            /\ UNCHANGED messages
       ELSE /\ messages' = [i \in DOMAIN messages \cup {id} |->
                              IF i = id
                              THEN [sender |-> who, recipient |-> recipient,
                                    is_read |-> FALSE, read_at |-> NullTime]
                              ELSE messages[i]]
            /\ resp' = Resp("message_form", who, id, 302, [created |-> TRUE])
    /\ UNCHANGED now
    /\ OtherTablesUnchangedMessage

\* PATCH api/messages/<message_id>/ with {"is_read": ...}
MessageDetailAPIView_update(who, id, is_read) ==
    /\ IF ~IsAuthenticated(who)
       THEN /\ resp' = Resp("message_update", who, id, 403, NoInfo)
            /\ UNCHANGED messages
       ELSE IF id \notin MessageQueryset(who)
       THEN /\ resp' = Resp("message_update", who, id, 404, NoInfo)
            /\ UNCHANGED messages
       ELSE /\ messages' = [messages EXCEPT ![id].is_read = is_read]
            /\ resp' = Resp("message_update", who, id, 200, NoInfo)
    /\ UNCHANGED now
    /\ OtherTablesUnchangedMessage

\* DELETE api/messages/<message_id>/
MessageDetailAPIView_destroy(who, id) ==
    /\ IF ~IsAuthenticated(who)
       THEN /\ resp' = Resp("message_delete", who, id, 403, NoInfo)
            /\ UNCHANGED messages
       ELSE IF id \notin MessageQueryset(who)
       THEN /\ resp' = Resp("message_delete", who, id, 404, NoInfo)
            /\ UNCHANGED messages
       ELSE /\ messages' = [i \in DOMAIN messages \ {id} |-> messages[i]]
            /\ resp' = Resp("message_delete", who, id, 204, NoInfo)
    /\ UNCHANGED now
    /\ OtherTablesUnchangedMessage

\* a lookup that also finds the messages the requester sent
MarkReadLookup_any_party(who, id) == id \in MessageQueryset(who)

\* get_object_or_404(Message, message_id=message_id, recipient=request.user)
MarkReadLookup(who, id) ==
    id \in DOMAIN messages /\ messages[id].recipient = who

\* POST api/messages/<message_id>/mark-read/
MarkMessageReadAPIView_post(who, id) ==
    /\ IF ~IsAuthenticated(who)
       THEN /\ resp' = Resp("mark_read", who, id, 403, NoInfo)
            /\ UNCHANGED messages
       ELSE IF ~MarkReadLookup(who, id)
       THEN /\ resp' = Resp("mark_read", who, id, 404, NoInfo)
            /\ UNCHANGED messages
       ELSE LET marked == Message_mark_as_read(messages[id], now)
            IN  /\ messages' = [messages EXCEPT ![id] = marked.row]
                /\ resp' = Resp("mark_read", who, id, 200,
                                [wrote |-> marked.wrote, at |-> now])
    /\ UNCHANGED now
    /\ OtherTablesUnchangedMessage

\* GET messages/<pk>/ : MessageDetailView.get_object marks the message read
\* when the viewer is its recipient
MessageDetailView_get(who, id) ==
    /\ IF ~is_authenticated(who)
       THEN /\ resp' = Resp("message_page", who, id, 302, NoInfo)
            /\ UNCHANGED messages
       ELSE IF id \notin DOMAIN messages
       THEN /\ resp' = Resp("message_page", who, id, 404, NoInfo)
            /\ UNCHANGED messages
       ELSE IF messages[id].recipient = who /\ ~messages[id].is_read
       THEN LET marked == Message_mark_as_read(messages[id], now)
            IN  /\ messages' = [messages EXCEPT ![id] = marked.row]
                /\ resp' = Resp("message_page", who, id, 200,
                                [wrote |-> marked.wrote, at |-> now])
       ELSE /\ resp' = Resp("message_page", who, id, 200,
                            [wrote |-> FALSE, at |-> now])
            /\ UNCHANGED messages
    /\ UNCHANGED now
    /\ OtherTablesUnchangedMessage

\* the requesters and recipients of the message endpoints in this model
MessageRequesters == {"alice", "bob", Anon}

MessageRecipients == {"bob"}

NextMessage ==
    \/ Tick
    \/ \E who \in MessageRequesters, id \in MessageIds :
        \/ \E recipient \in MessageRecipients, is_read \in BOOLEAN :
              MessageListCreateAPIView_post(who, id, recipient, is_read)
        \/ \E recipient \in MessageRecipients :
              MessageCreateView_post(who, id, recipient)
        \/ \E is_read \in BOOLEAN : MessageDetailAPIView_update(who, id, is_read)
        \/ MessageDetailAPIView_destroy(who, id)
        \/ MarkMessageReadAPIView_post(who, id)
        \/ MessageDetailView_get(who, id)

---------------------------------------------------------------------------
(* Geolocated records and the proximity filters:
   property/models.py, users/models.py *)

\* latitude and longitude are held in units of 1/UnitsPerDegree degree
UnitsPerDegree == 10000

\* radius_km / 111: kilometres per degree
KmPerDegree == 111

\* the default radius of the map and listing queries
DefaultRadius == 5

Point(lat, lon) == [lat |-> lat, lon |-> lon]

\* (40.7128, -74.0060), the default center of ListingMapView
NYC == Point(407128, -740060)

Origin == Point(0, 0)

\* 0.0450 degrees north of NYC: inside the 5 km box (5/111 = 0.04504...)
NorthIn == Point(407578, -740060)

\* 0.0451 degrees north of NYC: outside the 5 km box
NorthOut == Point(407579, -740060)

\* 0.0451 degrees east of NYC: outside the 5 km box
EastOut == Point(407128, -739609)

\* a corner of the 5 km box: inside the box, 7.06 km from NYC
CornerIn == Point(407578, -739610)

Points == {NYC, Origin, NorthIn, NorthOut, EastOut, CornerIn}

UserPoints == {NYC, NorthIn, NorthOut}

HasPoint(p) == p # NoPoint

\* the address of the property of a listing row, NoPoint when the property
\* has no address (Property.address is nullable)
ListingAddress(row) ==
    IF row.property \in DOMAIN properties
    THEN properties[row.property].address
    ELSE NoPoint

\* ListingManager.within_radius: the active listings whose property address
\* lies in [latitude -+ radius_km/111] x [longitude -+ radius_km/111].
\* x >= latitude - radius_km/111 is compared exactly, multiplied through by
\* 111 and by the coordinate unit.
ListingManager_within_radius(latitude, longitude, radius_km) ==
    {i \in DOMAIN listings :
        /\ listings[i].is_active
        /\ HasPoint(ListingAddress(listings[i]))
        /\ KmPerDegree * (ListingAddress(listings[i]).lat - latitude)
               >= -(UnitsPerDegree * radius_km)
        /\ KmPerDegree * (ListingAddress(listings[i]).lat - latitude)
               <= UnitsPerDegree * radius_km
        /\ KmPerDegree * (ListingAddress(listings[i]).lon - longitude)
               >= -(UnitsPerDegree * radius_km)
        /\ KmPerDegree * (ListingAddress(listings[i]).lon - longitude)
               <= UnitsPerDegree * radius_km}

\* CustomUserManager.nearby_users: the users whose primary location lies in
\* the box; a NULL coordinate matches no comparison
CustomUserManager_nearby_users(latitude, longitude, distance_km) ==
    {u \in DOMAIN users :
        /\ HasPoint(users[u].location)
        /\ KmPerDegree * (users[u].location.lat - latitude)
               >= -(UnitsPerDegree * distance_km)
        /\ KmPerDegree * (users[u].location.lat - latitude)
               <= UnitsPerDegree * distance_km
        /\ KmPerDegree * (users[u].location.lon - longitude)
               >= -(UnitsPerDegree * distance_km)
        /\ KmPerDegree * (users[u].location.lon - longitude)
               <= UnitsPerDegree * distance_km}

QueryInfo(center, radius, result) ==
    [center |-> center, radius |-> radius, result |-> result]

\* the exceptions a call on the manager Listing.objects ends with
AttributeError == "AttributeError"

FieldError == "FieldError"

TypeError == "TypeError"

Exceptions == {AttributeError, FieldError, TypeError}

\* the call has an outcome, and every outcome it can have is an exception
Raises(outcomes) == outcomes # {} /\ outcomes \subseteq Exceptions

\* Listing.objects = ListingManager() is assigned after the class Listing is
\* built, so contribute_to_class never runs and the manager has no model.
\* filter() on it builds a Query without a model and raises when the first
\* lookup is resolved, before any row is read.  The repository pins no
\* Django release and the class of the exception depends on the release
\* installed: AttributeError (Query.get_meta reads model._meta) up to 4.0,
\* FieldError from 4.1 on.  The call can end with either
Listing_objects_filter == {AttributeError, FieldError}

\* Listing.objects.within_radius(...): self.filter(...) on that manager
Listing_objects_within_radius(latitude, longitude, radius_km) ==
    Listing_objects_filter

\* Listing.objects.active_listings(): self.filter(is_active=True) on it
Listing_objects_active_listings == Listing_objects_filter

\* create() on it calls self.model(**kwargs) with model = None and raises
\* before any INSERT: TypeError up to Django 4.2, AttributeError from 5.0 on
Listing_objects_create(property, user, price) == {TypeError, AttributeError}

\* one evaluation of Listing.objects.within_radius(lat, lon, radius)
ListingManager_within_radius_call(center, radius_km) ==
    /\ \E error \in Listing_objects_within_radius(center.lat, center.lon,
                                                   radius_km) :
          resp' = Resp("nearby_listings", Anon, 0, 500,
                       QueryInfo(center, radius_km, error))
    /\ UNCHANGED <<configs, campaigns, messages, properties, listings, users,
                   userProps, now,
                   clusters, cache, savedMapViews, procs>>

\* one evaluation of User.objects.nearby_users(lat, lon, distance_km)
CustomUserManager_nearby_users_call(center, distance_km) ==
    /\ resp' = Resp("nearby_users", Anon, 0, 200,
                    QueryInfo(center, distance_km,
                        CustomUserManager_nearby_users(center.lat, center.lon,
                                                       distance_km)))
    /\ UNCHANGED <<configs, campaigns, messages, properties, listings, users,
                   userProps, now,
                   clusters, cache, savedMapViews, procs>>

---------------------------------------------------------------------------
(* The external cache: django.core.cache.cache, a Redis store *)

\* a delete that leaves the store as it is
cache_delete_nothing(c, keys) == c

\* cache.delete(key) for each of the keys; a missing key is ignored
cache_delete(c, keys) == [k \in DOMAIN c \ keys |-> c[k]]

\* cache.set(key, value, timeout)
cache_set(c, key, value) ==
    [k \in DOMAIN c \cup {key} |-> IF k = key THEN value ELSE c[k]]

\* invalidate_cache(key_pattern): deletes the one key of that exact name
invalidate_cache(c, key_pattern) == cache_delete(c, {key_pattern})

\* f"property_detail_{property_id}"
PropertyDetailKey(id) == "property_detail_" \o id

\* f"listing_detail_{listing_id}"
ListingDetailKey(id) == "listing_detail_" \o ToString(id)

\* the key cache_page stores the rendered cluster list under (one URL)
MapClusterPageKey == "views.decorators.cache.cache_page./api/map-clusters/"

\* the entry expires or is evicted by the store
CacheEvict(key) ==
    /\ key \in DOMAIN cache
    /\ cache' = cache_delete(cache, {key})
    /\ resp' = Resp("cache_evict", Anon, 0, 0, [key |-> key])
    /\ UNCHANGED <<configs, campaigns, messages, properties, listings, users,
                   userProps, now, clusters, savedMapViews, procs>>

---------------------------------------------------------------------------
(* Listing.save and the MapCluster aggregates *)

\* one day of the clock `now`
TicksPerDay == 2

\* prices in cents: DecimalField(decimal_places=2)
Prices == {100, 101}

\* (contract_date - listed_date).days: timedelta.days rounds down
timedelta_days(from, to) == (to - from) \div TicksPerDay

\* Listing.save: days_on_market is derived when contract_date and listed_date
\* are both set on the instance; listed_date (auto_now_add) is filled in by
\* the field's pre_save inside super().save(), after the derivation; a
\* negative days_on_market violates the CHECK of PositiveIntegerField
Listing_save(inst, adding, t) ==
    LET derived == IF inst.contract_date # NullTime /\ inst.listed_date # NullTime
                   THEN [inst EXCEPT !.days_on_market =
                            timedelta_days(inst.listed_date, inst.contract_date)]
                   ELSE inst
        stamped == IF adding THEN [derived EXCEPT !.listed_date = t] ELSE derived
    IN  IF stamped.days_on_market < 0
        THEN [result |-> "IntegrityError", inst |-> inst]
        ELSE [result |-> "saved", inst |-> stamped]

\* a new Listing instance: the defaults of the model fields
NewListing(property, user, price, contract_date) ==
    [property |-> property, user |-> user, is_active |-> TRUE, price |-> price,
     views_count |-> 0, inquiries_count |-> 0, listed_date |-> NullTime,
     contract_date |-> contract_date, days_on_market |-> 0]

\* avg_price = NULL (null=True), the value of a MapCluster row that is stored
\* without a price
NullPrice == -1

ClusterCenters == {NYC, Origin}

ClusterRadii == {DefaultRadius}

\* update_map_clusters: over no MapCluster row the loop body does not run and
\* 'map_clusters' is deleted; over one or more rows the first pass of the
\* loop raises at Listing.objects.within_radius (line 54), before any
\* cluster.save() and before cache.delete('map_clusters')
update_map_clusters(cl, c) ==
    IF \E x \in DOMAIN cl :
          Raises(Listing_objects_within_radius(cl[x].center.lat,
                                               cl[x].center.lon,
                                               cl[x].radius_km))
    THEN [raised |-> TRUE, cache |-> c]
    ELSE [raised |-> FALSE, cache |-> cache_delete(c, {"map_clusters"})]

---------------------------------------------------------------------------
(* Property and Listing: property/models.py, property/views.py *)

PropertyIds == {"p1", "p2"}

ListingIds == 1..NumListings

ClusterIds == 1..NumClusters

\* PropertySerializer(instance).data: the row with its id and nested address
PropertySerializer_data(id) ==
    [property_id |-> id,
     address |-> properties[id].address,
     building_name |-> properties[id].building_name]

\* ListingSerializer(instance).data: every field, the property nested
ListingSerializer_data(id) ==
    [listing_id |-> id,
     property |-> PropertySerializer_data(listings[id].property),
     user |-> listings[id].user,
     is_active |-> listings[id].is_active,
     price |-> listings[id].price,
     views_count |-> listings[id].views_count,
     inquiries_count |-> listings[id].inquiries_count,
     listed_date |-> listings[id].listed_date,
     contract_date |-> listings[id].contract_date,
     days_on_market |-> listings[id].days_on_market]

\* MapClusterSerializer(queryset, many=True).data
MapClusterSerializer_data ==
    {[cluster_id |-> c,
      center_latitude |-> clusters[c].center.lat,
      center_longitude |-> clusters[c].center.lon,
      radius_km |-> clusters[c].radius_km,
      property_count |-> clusters[c].property_count,
      listing_count |-> clusters[c].listing_count,
      avg_price |-> clusters[c].avg_price] : c \in DOMAIN clusters}

\* the tables no Property or Listing handler writes
OtherTablesUnchangedProperty ==
    UNCHANGED <<configs, campaigns, messages, users, userProps, now,
                savedMapViews, procs>>

\* Property.objects.create(address=...): a Property row written through the
\* ORM (Property has no owner column; address is read-only in the API)
Property_objects_create(id, address) ==
    /\ id \notin DOMAIN properties
    /\ properties' = [i \in DOMAIN properties \cup {id} |->
                        IF i = id
                        THEN [address |-> address, building_name |-> 0]
                        ELSE properties[i]]
    /\ resp' = Resp("property_orm_create", Anon, 0, 0, NoInfo)
    /\ UNCHANGED <<listings, clusters, cache>>
    /\ OtherTablesUnchangedProperty

\* GET on PropertyDetailView: the cached serialization if the key is set,
\* else the stored record, which is then cached
PropertyDetailView_get(who, id) ==
    /\ IF PropertyDetailKey(id) \in DOMAIN cache
       THEN /\ resp' = Resp("property_get", who, 0, 200,
                            [target |-> id, hit |-> TRUE,
                             data |-> cache[PropertyDetailKey(id)]])
            /\ UNCHANGED cache
       ELSE IF id \notin DOMAIN properties
       THEN /\ resp' = Resp("property_get", who, 0, 404, [target |-> id])
            /\ UNCHANGED cache
       ELSE /\ resp' = Resp("property_get", who, 0, 200,
                            [target |-> id, hit |-> FALSE,
                             data |-> PropertySerializer_data(id)])
            /\ cache' = cache_set(cache, PropertyDetailKey(id),
                                  PropertySerializer_data(id))
    /\ UNCHANGED <<properties, listings, clusters>>
    /\ OtherTablesUnchangedProperty

\* PUT/PATCH on PropertyDetailView: no permission_classes, and settings.py
\* sets no DEFAULT_PERMISSION_CLASSES, so the DRF default AllowAny applies
PropertyDetailView_update(who, id, building_name) ==
    /\ IF id \notin DOMAIN properties
       THEN /\ resp' = Resp("property_update", who, 0, 404, [target |-> id])
            /\ UNCHANGED <<properties, cache>>
       ELSE /\ properties' = [properties EXCEPT ![id].building_name = building_name]
            /\ cache' = cache_delete(cache, {PropertyDetailKey(id), "property_list"})
            /\ resp' = Resp("property_update", who, 0, 200,
                            [target |-> id,
                             had_entry |-> PropertyDetailKey(id) \in DOMAIN cache])
    /\ UNCHANGED <<listings, clusters>>
    /\ OtherTablesUnchangedProperty

\* DELETE on PropertyDetailView: instance.delete(), listings cascade; the
\* handler deletes the two property keys and does not call update_map_clusters
PropertyDetailView_destroy(who, id) ==
    /\ IF id \notin DOMAIN properties
       THEN /\ resp' = Resp("property_delete", who, 0, 404, [target |-> id])
            /\ UNCHANGED <<properties, listings, cache>>
       ELSE /\ properties' = [i \in DOMAIN properties \ {id} |-> properties[i]]
            /\ listings' = [i \in {l \in DOMAIN listings : listings[l].property # id}
                              |-> listings[i]]
            /\ cache' = cache_delete(cache, {PropertyDetailKey(id), "property_list"})
            /\ resp' = Resp("property_delete", who, 0, 204,
                            [target |-> id,
                             had_entry |-> PropertyDetailKey(id) \in DOMAIN cache])
    /\ UNCHANGED clusters
    /\ OtherTablesUnchangedProperty

\* POST on ListingCreateView (login_required): Listing.objects.create(...)
\* raises before a row is written; invalidate_cache and update_map_clusters
\* are not reached
ListingCreateView_post(who, id, property, price) ==
    /\ IF ~is_authenticated(who)
       THEN resp' = Resp("listing_form_create", who, id, 302, NoInfo)
       ELSE \E error \in Listing_objects_create(property, who, price) :
               resp' = Resp("listing_form_create", who, id, 500,
                            [error |-> error])
    /\ UNCHANGED <<properties, listings, clusters, cache>>
    /\ OtherTablesUnchangedProperty

\* Listing(...).save() of a new instance (admin site, shell, fixtures): the
\* way a Listing row comes to be stored
Listing_save_insert(id, property, user, price, contract_date) ==
    LET saved == Listing_save(NewListing(property, user, price, contract_date),
                              TRUE, now)
    IN  /\ id \notin DOMAIN listings
        /\ property \in DOMAIN properties
        /\ IF saved.result = "saved"
           THEN listings' = [i \in DOMAIN listings \cup {id} |->
                                IF i = id THEN saved.inst ELSE listings[i]]
           ELSE UNCHANGED listings
        /\ resp' = Resp("listing_orm_create", user, id, 0,
                        [result |-> saved.result])
        /\ UNCHANGED <<properties, clusters, cache>>
        /\ OtherTablesUnchangedProperty

\* the instance after the serializer has set the validated fields
Patched(row, patch) ==
    [f \in DOMAIN row |-> IF f \in DOMAIN patch THEN patch[f] ELSE row[f]]

\* instance.save() of a stored Listing with the given fields changed (admin
\* site, shell)
Listing_save_update(id, patch) ==
    LET saved == Listing_save(Patched(listings[id], patch), FALSE, now)
    IN  /\ id \in DOMAIN listings
        /\ IF saved.result = "saved"
           THEN listings' = [listings EXCEPT ![id] = saved.inst]
           ELSE UNCHANGED listings
        /\ resp' = Resp("listing_orm_save", listings[id].user, id, 0,
                        [result |-> saved.result])
        /\ UNCHANGED <<properties, clusters, cache>>
        /\ OtherTablesUnchangedProperty

\* ListingDetailView.get_object: queryset = Listing.objects.all() is a
\* QuerySet without a model; get(listing_id=...) filters it and raises an
\* exception that is neither Http404 nor one of the errors DRF turns into
\* a 404
ListingDetailView_get_object(id) == Listing_objects_filter

\* PUT/PATCH on ListingDetailView (AllowAny, as PropertyDetailView): the
\* request ends in get_object, before perform_update
ListingDetailView_update(who, id, patch) ==
    /\ \E error \in ListingDetailView_get_object(id) :
          resp' = Resp("listing_update", who, id, 500, [error |-> error])
    /\ UNCHANGED <<properties, listings, clusters, cache>>
    /\ OtherTablesUnchangedProperty

\* DELETE on ListingDetailView: the request ends in get_object, before
\* perform_destroy
ListingDetailView_destroy(who, id) ==
    /\ \E error \in ListingDetailView_get_object(id) :
          resp' = Resp("listing_delete", who, id, 500, [error |-> error])
    /\ UNCHANGED <<properties, listings, clusters, cache>>
    /\ OtherTablesUnchangedProperty

\* GET on ListingDetailView: the cached serialization if the key is set;
\* else the request ends in get_object, before views_count is written and
\* before cache.set
ListingDetailView_get(who, id) ==
    /\ IF ListingDetailKey(id) \in DOMAIN cache
       THEN resp' = Resp("listing_get", who, id, 200,
                         [hit |-> TRUE, data |-> cache[ListingDetailKey(id)]])
       ELSE \E error \in ListingDetailView_get_object(id) :
               resp' = Resp("listing_get", who, id, 500,
                            [hit |-> FALSE, error |-> error])
    /\ UNCHANGED <<properties, listings, clusters, cache>>
    /\ OtherTablesUnchangedProperty

\* POST send_inquiry (IsAuthenticated): inquiries_count is incremented and
\* the listing's detail key deleted; a request without message is a 400
send_inquiry(who, id, message) ==
    /\ IF ~IsAuthenticated(who)
       THEN /\ resp' = Resp("send_inquiry", who, id, 403, NoInfo)
            /\ UNCHANGED <<listings, cache>>
       ELSE IF id \notin DOMAIN listings
       THEN /\ resp' = Resp("send_inquiry", who, id, 404, NoInfo)
            /\ UNCHANGED <<listings, cache>>
       ELSE IF ~message
       THEN /\ resp' = Resp("send_inquiry", who, id, 400, NoInfo)
            /\ UNCHANGED <<listings, cache>>
       ELSE /\ listings[id].inquiries_count < MaxCount
            /\ listings' = [listings EXCEPT ![id].inquiries_count = @ + 1]
            /\ cache' = invalidate_cache(cache, ListingDetailKey(id))
            /\ resp' = Resp("send_inquiry", who, id, 200,
                            [had_entry |-> ListingDetailKey(id) \in DOMAIN cache])
    /\ UNCHANGED <<properties, clusters>>
    /\ OtherTablesUnchangedProperty

\* POST on MapClusterListCreateView (AllowAny): MapClusterSerializer has
\* fields = '__all__', so serializer.save() stores the row with the
\* property_count, listing_count and avg_price of the request (a request
\* without them posts the defaults of the fields: 0, 0 and NULL);
\* update_map_clusters() then runs over a table that holds the new row, and
\* invalidate_cache('map_clusters') follows only when it returns
MapClusterListCreateView_post(who, id, center, radius_km, property_count, listing_count, avg_price) ==
    LET stored == [c \in DOMAIN clusters \cup {id} |->
                      IF c = id
                      THEN [center |-> center, radius_km |-> radius_km,
                            property_count |-> property_count,
                            listing_count |-> listing_count,
                            avg_price |-> avg_price]
                      ELSE clusters[c]]
        updated == update_map_clusters(stored, cache)
    IN  /\ id \notin DOMAIN clusters
        /\ clusters' = stored
        /\ IF updated.raised
           THEN /\ UNCHANGED cache
                /\ resp' = Resp("cluster_create", who, id, 500, NoInfo)
           ELSE /\ cache' = invalidate_cache(updated.cache, "map_clusters")
                /\ resp' = Resp("cluster_create", who, id, 201, NoInfo)
        /\ UNCHANGED <<properties, listings>>
        /\ OtherTablesUnchangedProperty

\* GET on MapClusterListCreateView, wrapped in cache_page(60 * 10): a page
\* stored for the URL is returned as it is and get() does not run; else
\* get() calls update_map_clusters(), and the rendered list is stored when
\* the response is a 200
MapClusterListCreateView_get(who) ==
    LET updated == update_map_clusters(clusters, cache)
    IN  /\ IF MapClusterPageKey \in DOMAIN cache
           THEN /\ resp' = Resp("cluster_list", who, 0, 200,
                                [hit |-> TRUE, data |-> cache[MapClusterPageKey]])
                /\ UNCHANGED cache
           ELSE IF updated.raised
           THEN /\ resp' = Resp("cluster_list", who, 0, 500, [hit |-> FALSE])
                /\ UNCHANGED cache
           ELSE /\ resp' = Resp("cluster_list", who, 0, 200,
                                [hit |-> FALSE, data |-> MapClusterSerializer_data])
                /\ cache' = cache_set(updated.cache, MapClusterPageKey,
                                      MapClusterSerializer_data)
        /\ UNCHANGED <<properties, listings, clusters>>
        /\ OtherTablesUnchangedProperty

\* the price the listing form posts in the specifications that do not vary it
FormPrice == CHOOSE p \in Prices : \A q \in Prices : p <= q

NextProperty ==
    \/ \E id \in PropertyIds, address \in {NYC, NoPoint} :
          Property_objects_create(id, address)
    \/ \E who \in Requesters, id \in PropertyIds :
          \/ \E building_name \in 0..1 : PropertyDetailView_update(who, id, building_name)
          \/ PropertyDetailView_destroy(who, id)
    \/ \E id \in ListingIds, property \in PropertyIds :
          Listing_save_insert(id, property, "alice", FormPrice, NullTime)
    \/ \E who \in Requesters, id \in ListingIds :
          \/ \E property \in PropertyIds :
                ListingCreateView_post(who, id, property, FormPrice)
          \/ \E is_active \in BOOLEAN :
                ListingDetailView_update(who, id, [is_active |-> is_active])
          \/ ListingDetailView_destroy(who, id)

---------------------------------------------------------------------------
(* User and UserProperty: users/views.py *)

UserPropIds == 1..NumUserProps

UserRoles == {"buyer", "seller"}

\* the values of ?filter= the property list distinguishes
PropertyFilters == {"all", "owned", "saved"}

\* the prefixes invalidate_user_cache joins with the user id
UserCachePrefixes ==
    {"user_", "user_properties_", "user_addresses_", "nearby_users_",
     "saved_map_views_", "user_activity_", "user_connections_",
     "saved_searches_", "user_notifications_", "agent_profile_",
     "user_reviews_", "user_documents_", "user_subscriptions_",
     "user_referrals_", "user_audit_logs_", "user_preferences_",
     "user_map_interactions_"}

\* invalidate_user_cache: cache.delete of f"{prefix}{user_id}" per prefix
invalidate_user_cache(c, user_id) ==
    cache_delete(c, {prefix \o user_id : prefix \in UserCachePrefixes})

\* f"user_{user.user_id}_{request.user.is_authenticated}"
UserProfileKey(user_id) == "user_" \o user_id \o "_True"

\* f"user_properties_{user_id}_{filter}"
UserPropertiesKey(user_id, filter) ==
    "user_properties_" \o user_id \o "_" \o filter

\* json.dumps(data) / json.loads(text)
json_dumps(data) == [json |-> data]
json_loads(text) == text.json

\* UserSerializer(user).data
UserSerializer_data(user_id) ==
    [user_id |-> user_id,
     user_role |-> users[user_id].user_role,
     primary_location |-> users[user_id].location]

\* UserViewSet.get_queryset
UserQueryset(who) == IF is_staff(who) THEN DOMAIN users ELSE {who} \cap DOMAIN users

OtherTablesUnchangedUser ==
    UNCHANGED <<configs, campaigns, messages, properties, listings, now,
                clusters, savedMapViews, procs>>

\* GET on UserViewSet (retrieve): the cached JSON if the key is set, else
\* the serialized row, which is then cached.  The private-profile 403 needs
\* a requester who is neither the user nor staff, whom get_queryset excludes.
UserViewSet_retrieve(who, target) ==
    /\ IF ~IsAuthenticated(who)
       THEN /\ resp' = Resp("user_retrieve", who, 0, 403, [target |-> target])
            /\ UNCHANGED cache
       ELSE IF target \notin UserQueryset(who)
       THEN /\ resp' = Resp("user_retrieve", who, 0, 404, [target |-> target])
            /\ UNCHANGED cache
       ELSE IF UserProfileKey(target) \in DOMAIN cache
       THEN /\ resp' = Resp("user_retrieve", who, 0, 200,
                            [target |-> target, hit |-> TRUE,
                             data |-> json_loads(cache[UserProfileKey(target)])])
            /\ UNCHANGED cache
       ELSE /\ resp' = Resp("user_retrieve", who, 0, 200,
                            [target |-> target, hit |-> FALSE,
                             data |-> UserSerializer_data(target)])
            /\ cache' = cache_set(cache, UserProfileKey(target),
                                  json_dumps(UserSerializer_data(target)))
    /\ UNCHANGED <<users, userProps>>
    /\ OtherTablesUnchangedUser

\* PUT/PATCH on UserViewSet: user_role and the primary location are
\* writable fields of UserSerializer
UserViewSet_update(who, target, user_role, location) ==
    /\ IF ~IsAuthenticated(who)
       THEN /\ resp' = Resp("user_update", who, 0, 403, [target |-> target])
            /\ UNCHANGED <<users, cache>>
       ELSE IF target \notin UserQueryset(who)
       THEN /\ resp' = Resp("user_update", who, 0, 404, [target |-> target])
            /\ UNCHANGED <<users, cache>>
       ELSE IF target # who /\ ~is_staff(who)
       THEN /\ resp' = Resp("user_update", who, 0, 403, [target |-> target])
            /\ UNCHANGED <<users, cache>>
       ELSE /\ users' = [users EXCEPT ![target].user_role = user_role,
                                      ![target].location = location]
            /\ cache' = invalidate_user_cache(cache, target)
            /\ resp' = Resp("user_update", who, 0, 200, [target |-> target])
    /\ UNCHANGED userProps
    /\ OtherTablesUnchangedUser

\* the user_id (uuid4) a created row gets
NewUserIds == {"dave"}

\* POST on UserViewSet (CreateModelMixin.create, inherited): every
\* authenticated requester inserts a User row from the writable fields of
\* UserSerializer; account_status, is_active and is_staff take the model
\* defaults and no password is set, so the new user cannot log in.  No
\* cache key is deleted
UserViewSet_create(who, id, user_role, location, valid) ==
    /\ (IsAuthenticated(who) /\ valid) => id \notin DOMAIN users
    /\ IF ~IsAuthenticated(who)
       THEN /\ resp' = Resp("user_create", who, 0, 403, [target |-> id])
            /\ UNCHANGED users
       ELSE IF ~valid
       THEN /\ resp' = Resp("user_create", who, 0, 400, [target |-> id])
            /\ UNCHANGED users
       ELSE /\ users' = [u \in DOMAIN users \cup {id} |->
                           IF u = id
                           THEN [user_role |-> user_role,
                                 account_status |-> "pending",
                                 is_active |-> TRUE,
                                 location |-> location,
                                 is_staff |-> FALSE,
                                 password |-> FALSE]
                           ELSE users[u]]
            /\ resp' = Resp("user_create", who, 0, 201, [target |-> id])
    /\ UNCHANGED <<userProps, cache>>
    /\ OtherTablesUnchangedUser

\* User.objects.create_user(email, password, **extra_fields), called from a
\* shell, a fixture or a management command.  Without an email it raises
\* ValueError.  Else the row is saved with is_active = True, the password
\* hashed (None: an unusable password), is_staff and user_role from
\* extra_fields and the other fields at their defaults, and a UserActivity
\* row 'account_creation' is created.  email is unique: the email of a
\* stored user raises IntegrityError at the save
CustomUserManager_create_user(id, email, password, extra_fields) ==
    /\ IF ~email
       THEN /\ resp' = Resp("create_user", Anon, 0, 0,
                            [target |-> id, result |-> "ValueError"])
            /\ UNCHANGED users
       ELSE IF id \in DOMAIN users
       THEN /\ resp' = Resp("create_user", Anon, 0, 0,
                            [target |-> id, result |-> "IntegrityError"])
            /\ UNCHANGED users
       ELSE /\ users' = [u \in DOMAIN users \cup {id} |->
                           IF u = id
                           THEN [user_role |-> extra_fields.user_role,
                                 account_status |-> "pending",
                                 is_active |-> TRUE,
                                 location |-> NoPoint,
                                 is_staff |-> extra_fields.is_staff,
                                 password |-> password]
                           ELSE users[u]]
            /\ resp' = Resp("create_user", Anon, 0, 0,
                            [target |-> id, result |-> "saved",
                             activity |-> "account_creation"])
    /\ UNCHANGED <<userProps, cache>>
    /\ OtherTablesUnchangedUser

\* User.objects.create_superuser(email, password) (manage.py
\* createsuperuser): create_user with is_staff = True and user_role 'admin'
CustomUserManager_create_superuser(id, email, password) ==
    CustomUserManager_create_user(id, email, password,
                                  [is_staff |-> TRUE, user_role |-> "admin"])

\* a destroy that removes the User row and the rows it owns
UserViewSet_destroy_hard(who, target) ==
    /\ IsAuthenticated(who)
    /\ target \in UserQueryset(who)
    /\ users' = [u \in DOMAIN users \ {target} |-> users[u]]
    /\ userProps' = [i \in {j \in DOMAIN userProps : userProps[j].user # target}
                       |-> userProps[i]]
    /\ cache' = invalidate_user_cache(cache, target)
    /\ resp' = Resp("user_delete", who, 0, 204, [target |-> target])
    /\ OtherTablesUnchangedUser

\* DELETE on UserViewSet: the soft delete
UserViewSet_destroy(who, target) ==
    /\ IF ~IsAuthenticated(who)
       THEN /\ resp' = Resp("user_delete", who, 0, 403, [target |-> target])
            /\ UNCHANGED <<users, cache>>
       ELSE IF target \notin UserQueryset(who)
       THEN /\ resp' = Resp("user_delete", who, 0, 404, [target |-> target])
            /\ UNCHANGED <<users, cache>>
       ELSE IF target # who /\ ~is_staff(who)
       THEN /\ resp' = Resp("user_delete", who, 0, 403, [target |-> target])
            /\ UNCHANGED <<users, cache>>
       ELSE /\ users' = [users EXCEPT ![target].account_status = "deleted",
                                      ![target].is_active = FALSE]
            /\ cache' = invalidate_user_cache(cache, target)
            /\ resp' = Resp("user_delete", who, 0, 204,
                            [target |-> target,
                             was_deleted |-> users[target].account_status = "deleted"])
    /\ UNCHANGED userProps
    /\ OtherTablesUnchangedUser

\* UserPropertyViewSet.get_queryset for the route user <user_id> and the
\* ?filter= value
UserPropertyFiltered(who, user_id, filter) ==
    IF user_id # who /\ ~is_staff(who)
    THEN {}
    ELSE {i \in DOMAIN userProps :
             /\ userProps[i].user = user_id
             /\ userProps[i].is_active
             /\ filter \in {"owned", "saved"} => userProps[i].property_type = filter}

\* get_queryset without ?filter=, as the detail routes use it
UserPropertyQueryset(who, user_id) == UserPropertyFiltered(who, user_id, "all")

\* UserPropertySerializer(queryset, many=True).data: one entry per row, in
\* the order of the primary key, without the key
RECURSIVE UserPropertySerializer_data(_)
UserPropertySerializer_data(ids) ==
    IF ids = {} THEN << >>
    ELSE LET i == CHOOSE x \in ids : \A y \in ids : x <= y
         IN  <<[title |-> userProps[i].title,
                property_type |-> userProps[i].property_type]>>
             \o UserPropertySerializer_data(ids \ {i})

\* GET on UserPropertyViewSet (list): the cache is read first, under a key
\* of the route's user and the filter; else the requester's queryset is
\* serialized and cached under that key
UserPropertyViewSet_list(who, user_id, filter) ==
    /\ IF ~IsAuthenticated(who)
       THEN /\ resp' = Resp("userprop_list", who, 0, 403, [target |-> user_id])
            /\ UNCHANGED cache
       ELSE IF UserPropertiesKey(user_id, filter) \in DOMAIN cache
       THEN /\ resp' = Resp("userprop_list", who, 0, 200,
                            [target |-> user_id, filter |-> filter, hit |-> TRUE,
                             data |-> json_loads(
                                 cache[UserPropertiesKey(user_id, filter)])])
            /\ UNCHANGED cache
       ELSE IF user_id \notin DOMAIN users
       THEN /\ resp' = Resp("userprop_list", who, 0, 404, [target |-> user_id])
            /\ UNCHANGED cache
       ELSE /\ resp' = Resp("userprop_list", who, 0, 200,
                            [target |-> user_id, filter |-> filter, hit |-> FALSE,
                             data |-> UserPropertySerializer_data(
                                 UserPropertyFiltered(who, user_id, filter))])
            /\ cache' = cache_set(cache, UserPropertiesKey(user_id, filter),
                            json_dumps(UserPropertySerializer_data(
                                UserPropertyFiltered(who, user_id, filter))))
    /\ UNCHANGED <<users, userProps>>
    /\ OtherTablesUnchangedUser

\* location_latitude and location_longitude of the request body
FormLocation == NYC

\* POST on UserPropertyViewSet
UserPropertyViewSet_create(who, user_id, id, title, property_type) ==
    /\ (IsAuthenticated(who) /\ (user_id = who \/ is_staff(who)))
           => id \notin DOMAIN userProps
    /\ IF ~IsAuthenticated(who)
       THEN /\ resp' = Resp("userprop_create", who, id, 403, [target |-> user_id])
            /\ UNCHANGED <<userProps, cache>>
       ELSE IF user_id \notin DOMAIN users
       THEN /\ resp' = Resp("userprop_create", who, id, 404, [target |-> user_id])
            /\ UNCHANGED <<userProps, cache>>
       ELSE IF user_id # who /\ ~is_staff(who)
       THEN /\ resp' = Resp("userprop_create", who, id, 403, [target |-> user_id])
            /\ UNCHANGED <<userProps, cache>>
       ELSE /\ userProps' = [i \in DOMAIN userProps \cup {id} |->
                               IF i = id
                               THEN [user |-> user_id, is_active |-> TRUE,
                                     title |-> title,
                                     property_type |-> property_type,
                                     location |-> FormLocation]
                               ELSE userProps[i]]
            /\ cache' = invalidate_user_cache(cache, user_id)
            /\ resp' = Resp("userprop_create", who, id, 201, [target |-> user_id])
    /\ UNCHANGED users
    /\ OtherTablesUnchangedUser

\* PUT/PATCH on UserPropertyViewSet
UserPropertyViewSet_update(who, user_id, id, title) ==
    /\ IF ~IsAuthenticated(who)
       THEN /\ resp' = Resp("userprop_update", who, id, 403, [target |-> user_id])
            /\ UNCHANGED <<userProps, cache>>
       ELSE IF user_id \notin DOMAIN users \/ id \notin UserPropertyQueryset(who, user_id)
       THEN /\ resp' = Resp("userprop_update", who, id, 404, [target |-> user_id])
            /\ UNCHANGED <<userProps, cache>>
       ELSE /\ userProps' = [userProps EXCEPT ![id].title = title]
            /\ cache' = invalidate_user_cache(cache, user_id)
            /\ resp' = Resp("userprop_update", who, id, 200, [target |-> user_id])
    /\ UNCHANGED users
    /\ OtherTablesUnchangedUser

\* DELETE on UserPropertyViewSet: perform_destroy deactivates the row
UserPropertyViewSet_destroy(who, user_id, id) ==
    /\ IF ~IsAuthenticated(who)
       THEN /\ resp' = Resp("userprop_delete", who, id, 403, [target |-> user_id])
            /\ UNCHANGED <<userProps, cache>>
       ELSE IF user_id \notin DOMAIN users \/ id \notin UserPropertyQueryset(who, user_id)
       THEN /\ resp' = Resp("userprop_delete", who, id, 404, [target |-> user_id])
            /\ UNCHANGED <<userProps, cache>>
       ELSE /\ userProps' = [userProps EXCEPT ![id].is_active = FALSE]
            /\ cache' = invalidate_user_cache(cache, user_id)
            /\ resp' = Resp("userprop_delete", who, id, 204, [target |-> user_id])
    /\ UNCHANGED users
    /\ OtherTablesUnchangedUser

\* the requesters of the user endpoints: the initial users, an anonymous
\* one, and a created user once they can log in
UserRequesters == Requesters \cup {u \in NewUserIds : is_authenticated(u)}

\* the users whose records the requests of this model address
TargetUsers == {"alice", "bob"}

\* the property_type the create requests of the write-only specification send
DefaultPropertyType == "saved"

NextUser ==
    \/ \E id \in NewUserIds, email \in BOOLEAN :
          \/ \E password \in BOOLEAN :
                CustomUserManager_create_user(id, email, password,
                    [is_staff |-> FALSE, user_role |-> "buyer"])
          \/ CustomUserManager_create_superuser(id, email, TRUE)
    \/ \E who \in UserRequesters, id \in NewUserIds, valid \in BOOLEAN :
          UserViewSet_create(who, id, "buyer", NoPoint, valid)
    \/ \E who \in UserRequesters, target \in TargetUsers :
          \/ UserViewSet_destroy(who, target)
          \/ \E user_role \in UserRoles :
                UserViewSet_update(who, target, user_role, users[target].location)
          \/ \E id \in UserPropIds, title \in 0..1 :
                \/ UserPropertyViewSet_create(who, target, id, title,
                                              DefaultPropertyType)
                \/ UserPropertyViewSet_update(who, target, id, title)
          \/ \E id \in UserPropIds : UserPropertyViewSet_destroy(who, target, id)

---------------------------------------------------------------------------
(* Initial state: empty tables *)

EmptyTable == [i \in {} |-> NoInfo]

Init ==
    /\ configs = [i \in {} |-> FALSE]
    /\ campaigns = EmptyTable
    /\ messages = EmptyTable
    /\ properties = EmptyTable
    /\ listings = EmptyTable
    /\ users = [u \in UserIds |-> [user_role |-> "buyer",
                                   account_status |-> "active",
                                   is_active |-> TRUE, location |-> NoPoint,
                                   is_staff |-> u \in StaffIds,
                                   password |-> TRUE]]
    /\ userProps = EmptyTable
    /\ now = 1
    /\ clusters = EmptyTable
    /\ cache = EmptyTable
    /\ savedMapViews = EmptyTable
    /\ procs = EmptyTable
    /\ resp = Resp("init", Anon, 0, 0, NoInfo)

SpecConfig == Init /\ [][NextConfig]_vars

---------------------------------------------------------------------------
(* C1: after any sequence of SystemConfig saves executed one at a time, at
   most one SystemConfig row has is_active = true. *)
C1_AtMostOneActiveConfig == Cardinality(ActiveConfigs) <= 1

\* a save of an active row has just deactivated another row
C1_Witness ==
    /\ resp.op \in {"config_create", "config_update", "config_form"}
    /\ resp.status \in {200, 201, 302}
    /\ is_staff(resp.who)
    /\ resp.info.deactivated >= 1
    /\ resp.id \in ActiveConfigs
    /\ Cardinality(DOMAIN configs) >= 2

SpecCampaign == Init /\ [][NextCampaign]_vars

\* the operations that run AdCampaign.save
CampaignSaveOps == {"campaign_create", "campaign_update",
                    "campaign_form_create", "campaign_form_update"}

\* the last request completed a save of the AdCampaign resp.id
CampaignJustSaved ==
    /\ resp.op \in CampaignSaveOps
    /\ resp.status \in {200, 201, 302}
    /\ is_authenticated(resp.who)
    /\ resp.info.result = "saved"

(* C2: immediately after any save of an AdCampaign, remaining_budget equals
   budget - total_spent, whatever the three fields held before the save
   (a remaining_budget supplied by the client included). *)
C2_RemainingBudgetDerived ==
    CampaignJustSaved =>
        /\ resp.id \in DOMAIN campaigns
        /\ campaigns[resp.id].remaining_budget =
               campaigns[resp.id].budget - campaigns[resp.id].total_spent

\* a save has just overwritten a client-supplied remaining_budget that
\* differed from budget - total_spent
C2_Witness ==
    /\ CampaignJustSaved
    /\ resp.info.supplied.k = "Decimal"
    /\ resp.info.supplied.v # campaigns[resp.id].remaining_budget
    /\ campaigns[resp.id].total_spent > 0

(* C3: a POST to the AdCampaign create endpoint by an unauthenticated
   requester returns an authorization failure and leaves the set of
   AdCampaign records unchanged. *)
C3_AnonymousCreateRejected ==
    [][(resp'.op = "campaign_create" /\ resp'.who = Anon) =>
           /\ resp'.status \in {401, 403}
           /\ campaigns' = campaigns]_vars

\* an unauthenticated create was answered while campaigns exist
C3_Witness ==
    /\ resp.op = "campaign_create"
    /\ resp.who = Anon
    /\ resp.status = 403
    /\ DOMAIN campaigns # {}

SpecMessage == Init /\ [][NextMessage]_vars

\* the two operations that call Message.mark_as_read
MarkReadOps == {"mark_read", "message_page"}

\* the step is a mark-read by the recipient of the stored message resp'.id
MarkReadStep ==
    /\ resp'.op \in MarkReadOps
    /\ resp'.status = 200
    /\ resp'.id \in DOMAIN messages
    /\ messages[resp'.id].recipient = resp'.who

(* C6: when the recipient marks an unread Message as read, the stored
   message afterwards has is_read = true and read_at set to the time of the
   call, and no other Message is changed. *)
C6_MarkReadStamps ==
    [][(MarkReadStep /\ ~messages[resp'.id].is_read) =>
           /\ DOMAIN messages' = DOMAIN messages
           /\ messages'[resp'.id].is_read
           /\ messages'[resp'.id].read_at = now
           /\ messages'[resp'.id].sender = messages[resp'.id].sender
           /\ messages'[resp'.id].recipient = messages[resp'.id].recipient
           /\ \A other \in DOMAIN messages \ {resp'.id} :
                  messages'[other] = messages[other]]_vars

\* a recipient has just marked an unread message read, at a time after the
\* start, while another message is stored
C6_Witness ==
    /\ resp.op \in MarkReadOps
    /\ resp.status = 200
    /\ resp.info.wrote
    /\ resp.info.at > 1
    /\ messages[resp.id].read_at = resp.info.at
    /\ \E other \in DOMAIN messages \ {resp.id} : ~messages[other].is_read

(* C7: mark-read is idempotent: for a Message that is already read, a
   further mark-read call at any later time performs no write and leaves
   is_read and read_at as they were. *)
C7_MarkReadIdempotent ==
    [][(MarkReadStep /\ messages[resp'.id].is_read) =>
           /\ ~resp'.info.wrote
           /\ messages' = messages]_vars

\* a second mark-read arrived after the clock moved on and wrote nothing
C7_Witness ==
    /\ resp.op \in MarkReadOps
    /\ resp.status = 200
    /\ ~resp.info.wrote
    /\ resp.id \in DOMAIN messages
    /\ messages[resp.id].recipient = resp.who
    /\ messages[resp.id].is_read
    /\ messages[resp.id].read_at # NullTime
    /\ messages[resp.id].read_at < resp.info.at

SpecProperty == Init /\ [][NextProperty]_vars

SpecUser == Init /\ [][NextUser]_vars

(* C4: every update or delete on the Property and Listing detail endpoints
   passes an authorization predicate first: no Property or Listing is ever
   modified or deleted on behalf of an unauthenticated requester. *)
C4_NoAnonymousMutation ==
    [][(/\ resp'.op \in {"property_update", "property_delete",
                         "listing_update", "listing_delete"}
        /\ resp'.who = Anon) =>
           /\ properties' = properties
           /\ listings' = listings]_vars

\* the step is an update or delete of an existing record that belongs to
\* another user, sent by an authenticated requester who is not staff
ForeignMutationStep ==
    /\ is_authenticated(resp'.who)
    /\ ~is_staff(resp'.who)
    /\ \/ /\ resp'.op \in {"user_update", "user_delete"}
          /\ resp'.info.target # resp'.who
       \/ /\ resp'.op \in {"userprop_update", "userprop_delete"}
          /\ resp'.id \in DOMAIN userProps
          /\ userProps[resp'.id].user # resp'.who
       \/ /\ resp'.op \in {"campaign_update", "campaign_delete"}
          /\ resp'.id \in DOMAIN campaigns
          /\ campaigns[resp'.id].user # resp'.who

(* C5: when an authenticated user who is neither the owner nor staff sends
   an update or delete for another user's record (User profile,
   UserProperty, AdCampaign), the response is 403 and the record is left
   unchanged. *)
C5_ForeignMutationForbidden ==
    [][ForeignMutationStep =>
           /\ resp'.status = 403
           /\ users' = users
           /\ userProps' = userProps
           /\ campaigns' = campaigns]_vars

\* what the handlers do in that case: the record is left unchanged and the
\* scoped queryset answers 404
C5_ForeignMutationNotFound ==
    [][ForeignMutationStep =>
           /\ resp'.status = 404
           /\ users' = users
           /\ userProps' = userProps
           /\ campaigns' = campaigns]_vars

---------------------------------------------------------------------------
(* The proximity filters over a changing set of geolocated records *)

\* the centers and radii the queries are evaluated for
QueryCenters == {NYC, Origin}

Radii == 0..MaxRadius

QueryRadii == {0, DefaultRadius}

GeoRequesters == {"alice"}

\* the number of geolocated records: listings and users with a location
GeoRecords ==
    Cardinality(DOMAIN listings)
        + Cardinality({u \in DOMAIN users : HasPoint(users[u].location)})

NextGeo ==
    \/ \E id \in PropertyIds, address \in Points \cup {NoPoint} :
          Property_objects_create(id, address)
    \/ \E who \in GeoRequesters, id \in ListingIds, property \in PropertyIds :
          /\ GeoRecords < MaxGeoRecords
          /\ Listing_save_insert(id, property, who, FormPrice, NullTime)
    \/ \E id \in ListingIds, is_active \in BOOLEAN :
          Listing_save_update(id, [is_active |-> is_active])
    \/ \E who \in GeoRequesters, location \in UserPoints \cup {NoPoint} :
          /\ HasPoint(users[who].location) \/ GeoRecords < MaxGeoRecords
          /\ UserViewSet_update(who, who, users[who].user_role, location)
    \/ \E who \in GeoRequesters, id \in NewUserIds,
          location \in UserPoints \cup {NoPoint} :
          /\ GeoRecords < MaxGeoRecords
          /\ UserViewSet_create(who, id, "buyer", location, TRUE)
    \/ \E center \in QueryCenters, radius_km \in QueryRadii :
          ListingManager_within_radius_call(center, radius_km)
    \/ \E center \in QueryCenters, distance_km \in QueryRadii :
          CustomUserManager_nearby_users_call(center, distance_km)

SpecGeo == Init /\ [][NextGeo]_vars

Abs(x) == IF x < 0 THEN -x ELSE x

\* squares and sums of numbers up to 10^6, kept as two limbs of base 10^6
Limb == 1000 * 1000

Big(hi, lo) == [hi |-> hi + (lo \div Limb), lo |-> lo % Limb]

BigSquare(a) ==
    LET h == a \div 1000
        l == a % 1000
        mid == 2 * h * l
    IN  Big(h * h + (mid \div 1000), (mid % 1000) * 1000 + l * l)

BigAdd(x, y) == Big(x.hi + y.hi, x.lo + y.lo)

BigLeq(x, y) == x.hi < y.hi \/ (x.hi = y.hi /\ x.lo <= y.lo)

\* the point p lies within radius_km of the center, by the Euclidean distance
\* at 111 km per degree: (111 dlat)^2 + (111 dlon)^2 <= radius_km^2.
\* A point more than (radius_km + 1)/100 degree away on one axis is more
\* than radius_km away.
WithinCircle(p, center, radius_km) ==
    LET dlat == Abs(p.lat - center.lat)
        dlon == Abs(p.lon - center.lon)
        far == (UnitsPerDegree \div 100) * (radius_km + 1)
    IN  /\ dlat <= far
        /\ dlon <= far
        /\ BigLeq(BigAdd(BigSquare(KmPerDegree * dlat),
                         BigSquare(KmPerDegree * dlon)),
                  BigSquare(UnitsPerDegree * radius_km))

\* the listing is active and its property has the address p
ActiveAt(i, p) == listings[i].is_active /\ ListingAddress(listings[i]) = p

\* the point differs from the center by more than radius_km/111 degree in
\* latitude or in longitude
BeyondBox(p, center, radius_km) ==
    \/ KmPerDegree * Abs(p.lat - center.lat) > UnitsPerDegree * radius_km
    \/ KmPerDegree * Abs(p.lon - center.lon) > UnitsPerDegree * radius_km

(* C8: for any center and radius, a query of the proximity filter returns
   every stored record whose latitude and longitude lie within the true
   circle of that radius around the center (at 111 km per degree): the
   result is a superset of the circle, for active listings joined to their
   property address and for users with a primary location. *)
C8_FilterCoversCircle ==
    /\ resp.op = "nearby_listings" =>
          \A i \in DOMAIN listings :
              (/\ listings[i].is_active
               /\ HasPoint(ListingAddress(listings[i]))
               /\ WithinCircle(ListingAddress(listings[i]), resp.info.center,
                               resp.info.radius))
                  => /\ resp.status = 200
                     /\ i \in resp.info.result
    /\ resp.op = "nearby_users" =>
          \A u \in DOMAIN users :
              (/\ HasPoint(users[u].location)
               /\ WithinCircle(users[u].location, resp.info.center,
                               resp.info.radius))
                  => /\ resp.status = 200
                     /\ u \in resp.info.result

\* what holds: the conditions written in the two filters select a superset
\* of the circle for every center and radius, and the user filter, which
\* runs, returns it
FilterConditionsCoverCircle ==
    /\ \A center \in Points, radius_km \in Radii :
          /\ \A i \in DOMAIN listings :
                (/\ listings[i].is_active
                 /\ HasPoint(ListingAddress(listings[i]))
                 /\ WithinCircle(ListingAddress(listings[i]), center, radius_km))
                    => i \in ListingManager_within_radius(center.lat, center.lon,
                                                          radius_km)
          /\ \A u \in DOMAIN users :
                (/\ HasPoint(users[u].location)
                 /\ WithinCircle(users[u].location, center, radius_km))
                    => u \in CustomUserManager_nearby_users(center.lat, center.lon,
                                                            radius_km)
    /\ resp.op = "nearby_users" =>
          resp.info.result =
              CustomUserManager_nearby_users(resp.info.center.lat,
                                             resp.info.center.lon,
                                             resp.info.radius)

(* C9: an active listing at (40.7128, -74.0060) is returned by a query for
   the same center with radius 5 and is not returned for center (0, 0)
   with radius 5; an active listing exactly at the center is returned for
   every radius >= 0; a listing whose latitude or longitude differs from the
   center by more than radius/111 degrees is never returned. *)
C9_BoxMembership ==
    resp.op = "nearby_listings" =>
        \A i \in DOMAIN listings :
            /\ ActiveAt(i, resp.info.center) =>
                  /\ resp.status = 200
                  /\ i \in resp.info.result
            /\ (/\ resp.status = 200
                /\ HasPoint(ListingAddress(listings[i]))
                /\ BeyondBox(ListingAddress(listings[i]), resp.info.center,
                             resp.info.radius))
                   => i \notin resp.info.result

\* what holds: the conditions written in within_radius select the listing at
\* the center and no listing beyond the box
FilterConditionsBoxMembership ==
    \A i \in DOMAIN listings :
        /\ ActiveAt(i, NYC) =>
              /\ i \in ListingManager_within_radius(NYC.lat, NYC.lon, DefaultRadius)
              /\ i \notin ListingManager_within_radius(Origin.lat, Origin.lon,
                                                       DefaultRadius)
        /\ \A center \in Points, radius_km \in Radii :
              /\ ActiveAt(i, center) =>
                    i \in ListingManager_within_radius(center.lat, center.lon,
                                                       radius_km)
              /\ (/\ HasPoint(ListingAddress(listings[i]))
                  /\ BeyondBox(ListingAddress(listings[i]), center, radius_km))
                     => i \notin ListingManager_within_radius(center.lat,
                                                              center.lon, radius_km)

IsQuery(r) == r.op \in {"nearby_listings", "nearby_users"}

(* C10: the proximity filter is a pure query: a call returns a result set,
   a call repeated with the same center and radius and no write to the
   records in between returns the same result set as the call before it,
   and no call changes a stored record. *)
C10_FilterPure ==
    [][IsQuery(resp') =>
          /\ resp'.status = 200
          /\ resp'.info.result \subseteq
                (IF resp'.op = "nearby_listings" THEN DOMAIN listings
                                                ELSE DOMAIN users)
          /\ properties' = properties
          /\ listings' = listings
          /\ users' = users
          /\ userProps' = userProps
          /\ (/\ resp.op = resp'.op
              /\ resp.info.center = resp'.info.center
              /\ resp.info.radius = resp'.info.radius)
                 => resp'.info.result = resp.info.result]_vars

---------------------------------------------------------------------------
(* The MapCluster aggregates under listing writes and cluster reads *)

ClusterRequesters == {"alice"}

\* update_map_clusters() run on its own
update_map_clusters_call ==
    LET updated == update_map_clusters(clusters, cache)
    IN  /\ cache' = updated.cache
        /\ resp' = Resp("update_map_clusters", Anon, 0,
                        IF updated.raised THEN 500 ELSE 200, NoInfo)
        /\ UNCHANGED <<properties, listings, clusters>>
        /\ OtherTablesUnchangedProperty

NextCluster ==
    \/ \E d \in {<<"p1", NYC>>, <<"p2", NorthOut>>} :
          Property_objects_create(d[1], d[2])
    \/ \E who \in ClusterRequesters, id \in ListingIds :
          \/ \E property \in PropertyIds, price \in Prices :
                Listing_save_insert(id, property, who, price, NullTime)
          \/ \E is_active \in BOOLEAN :
                Listing_save_update(id, [is_active |-> is_active])
          \/ \E property \in PropertyIds :
                ListingCreateView_post(who, id, property, FormPrice)
          \/ \E price \in Prices :
                ListingDetailView_update(who, id, [price |-> price])
          \/ ListingDetailView_destroy(who, id)
    \/ \E who \in ClusterRequesters, id \in PropertyIds :
          PropertyDetailView_destroy(who, id)
    \/ \E who \in ClusterRequesters, id \in ClusterIds, center \in ClusterCenters,
          property_count \in 0..MaxCount, listing_count \in 0..MaxCount,
          avg_price \in {NullPrice, FormPrice} :
          MapClusterListCreateView_post(who, id, center, DefaultRadius,
                                        property_count, listing_count, avg_price)
    \/ \E who \in ClusterRequesters : MapClusterListCreateView_get(who)
    \/ update_map_clusters_call

SpecCluster == Init /\ [][NextCluster]_vars

\* the step ran update_map_clusters: on its own, after the save of a new
\* cluster, or for a read of the cluster list that is not served from the
\* page cache
RecomputeStep ==
    \/ resp'.op \in {"update_map_clusters", "cluster_create"}
    \/ resp'.op = "cluster_list" /\ ~resp'.info.hit

\* the listings the conditions of the proximity filter select for the cluster
ClusterListings(c) ==
    ListingManager_within_radius(clusters[c].center.lat, clusters[c].center.lon,
                                 clusters[c].radius_km)

RECURSIVE SumPrices(_)
SumPrices(ids) ==
    IF ids = {} THEN 0
    ELSE LET i == CHOOSE x \in ids : TRUE
         IN  listings[i].price + SumPrices(ids \ {i})

\* the counts of the cluster are those of the listings now stored
CountsCurrent(c) ==
    /\ clusters[c].listing_count = Cardinality(ClusterListings(c))
    /\ clusters[c].property_count =
          Cardinality({listings[i].property : i \in ClusterListings(c)})

\* avg_price is exactly the arithmetic mean of the prices, 0 for no listing
AvgExact(c) ==
    IF ClusterListings(c) = {} THEN clusters[c].avg_price = 0
    ELSE clusters[c].avg_price * Cardinality(ClusterListings(c))
            = SumPrices(ClusterListings(c))

(* C11: a run of update_map_clusters completes, and after it every
   MapCluster has listing_count equal to the number of listings the
   proximity filter returns for its center and radius, property_count equal
   to the number of distinct properties among them, and avg_price equal to
   the arithmetic mean of their prices (0 when there are none). *)
C11_AggregatesExact ==
    [][RecomputeStep =>
          /\ resp'.status \in {200, 201}
          /\ (\A c \in DOMAIN clusters : CountsCurrent(c) /\ AvgExact(c))']_vars

\* what holds: no run of update_map_clusters writes a MapCluster row, and a
\* run over one or more rows ends in an error
RecomputeWritesNothing ==
    [][RecomputeStep =>
          /\ \A c \in DOMAIN clusters : clusters'[c] = clusters[c]
          /\ DOMAIN clusters' # {} => resp'.status = 500]_vars

\* the step is a request that created, updated or deleted a Listing, the
\* cascade from a deleted Property included
ListingWriteStep ==
    \/ resp'.op = "listing_form_create" /\ resp'.status = 200
    \/ resp'.op = "listing_update" /\ resp'.status = 200
    \/ resp'.op = "listing_delete" /\ resp'.status = 204
    \/ resp'.op = "property_delete" /\ resp'.status = 204

(* C12: with requests executed one at a time, after any request that
   creates, updates or deletes a Listing (listings removed by cascade when
   their Property is deleted included), every MapCluster's stored
   listing_count, property_count and avg_price equal the values recomputed
   from the listings now stored. *)
C12_ClustersFollowListingWrites ==
    [][ListingWriteStep =>
          (\A c \in DOMAIN clusters : CountsCurrent(c) /\ AvgExact(c))']_vars

(* C13: every read of the cluster list recomputes the aggregates before
   responding, so the response reflects the listings stored at the time of
   the read, also when it follows an earlier read within the page-cache
   lifetime. *)
C13_ClusterReadIsCurrent ==
    [][resp'.op = "cluster_list" =>
          /\ resp'.status = 200
          /\ (\A c \in DOMAIN clusters : CountsCurrent(c) /\ AvgExact(c))'
          /\ resp'.info.data = MapClusterSerializer_data']_vars

---------------------------------------------------------------------------
(* The detail caches of Property and Listing and the user-scoped list cache *)

CacheRequesters == {"alice"}

\* the listing the detail requests of this specification address
CacheListingIds == {1}

CacheKeys ==
    {PropertyDetailKey("p1")}
        \cup {ListingDetailKey(id) : id \in CacheListingIds}
        \cup {UserPropertiesKey("alice", "all")}

NextCache ==
    \/ Property_objects_create("p1", NYC)
    \/ \E who \in CacheRequesters :
          \/ PropertyDetailView_get(who, "p1")
          \/ \E building_name \in 0..1 : PropertyDetailView_update(who, "p1", building_name)
          \/ PropertyDetailView_destroy(who, "p1")
          \/ \E id \in CacheListingIds :
                \/ Listing_save_insert(id, "p1", who, FormPrice, NullTime)
                \/ ListingCreateView_post(who, id, "p1", FormPrice)
                \/ ListingDetailView_get(who, id)
                \/ \E price \in Prices : ListingDetailView_update(who, id, [price |-> price])
                \/ ListingDetailView_destroy(who, id)
                \/ \E message \in BOOLEAN : send_inquiry(who, id, message)
          \/ UserPropertyViewSet_list(who, "alice", "all")
          \/ \E id \in UserPropIds :
                UserPropertyViewSet_create(who, "alice", id, 0, DefaultPropertyType)
    \/ \E key \in CacheKeys : CacheEvict(key)

SpecCache == Init /\ [][NextCache]_vars

\* the step is a completed update or delete of the property through its
\* detail endpoint
PropertyDetailWrite(r) ==
    \/ r.op = "property_update" /\ r.status = 200
    \/ r.op = "property_delete" /\ r.status = 204

\* the step is a completed update or delete of the listing through its
\* detail endpoint, or a completed send-inquiry
ListingDetailWrite(r) ==
    \/ r.op = "listing_update" /\ r.status = 200
    \/ r.op = "listing_delete" /\ r.status = 204
    \/ r.op = "send_inquiry" /\ r.status = 200

(* C14: with requests executed one at a time, after an update or delete of a
   Property or Listing through its detail endpoint (or a send-inquiry on a
   Listing) the cache holds no entry under that record's detail key, and a
   detail GET of the record that comes next does not return the pre-write
   serialization: it answers without one (404, or the 500 of the listing
   lookup) or with the record as stored. *)
C14_DetailKeyDeletedOnWrite ==
    [][/\ PropertyDetailWrite(resp') =>
             PropertyDetailKey(resp'.info.target) \notin DOMAIN cache'
       /\ ListingDetailWrite(resp') =>
             ListingDetailKey(resp'.id) \notin DOMAIN cache'
       /\ (PropertyDetailWrite(resp) /\ resp'.op = "property_get"
              /\ resp'.info.target = resp.info.target) =>
             \/ resp'.status = 404
             \/ resp'.info.data = PropertySerializer_data(resp.info.target)'
       /\ (ListingDetailWrite(resp) /\ resp'.op = "listing_get"
              /\ resp'.id = resp.id) =>
             \/ resp'.status \in {404, 500}
             \/ resp'.info.data = ListingSerializer_data(resp.id)']_vars

\* an update of the property has just deleted the entry stored under its key,
\* while a listing of the property is stored
C14_Witness ==
    /\ resp.op = "property_update"
    /\ resp.status = 200
    /\ resp.info.had_entry
    /\ PropertyDetailKey(resp.info.target) \notin DOMAIN cache
    /\ \E i \in DOMAIN listings : listings[i].property = resp.info.target

\* the read found no entry under its key and answered 200
CacheMiss(r) ==
    /\ r.op \in {"property_get", "listing_get", "userprop_list"}
    /\ r.status = 200
    /\ ~r.info.hit

\* the serialization of the records the read addresses, as now stored and as
\* the requester may see them
CurrentData(r) ==
    IF r.op = "property_get" THEN PropertySerializer_data(r.info.target)
    ELSE IF r.op = "listing_get" THEN ListingSerializer_data(r.id)
    ELSE UserPropertySerializer_data(
             UserPropertyFiltered(r.who, r.info.target, r.info.filter))

\* the value stored under the key of the read
CachedData(r) ==
    IF r.op = "property_get" THEN cache[PropertyDetailKey(r.info.target)]
    ELSE IF r.op = "listing_get" THEN cache[ListingDetailKey(r.id)]
    ELSE json_loads(cache[UserPropertiesKey(r.info.target, r.info.filter)])

\* the key the read uses
ReadKey(r) ==
    IF r.op = "property_get" THEN PropertyDetailKey(r.info.target)
    ELSE IF r.op = "listing_get" THEN ListingDetailKey(r.id)
    ELSE UserPropertiesKey(r.info.target, r.info.filter)

\* the record the detail read addresses is stored
ReadTargetExists(r) ==
    IF r.op = "property_get" THEN r.info.target \in DOMAIN properties
    ELSE IF r.op = "listing_get" THEN r.id \in DOMAIN listings
    ELSE TRUE

\* the step is a cached read of one of the given kinds that found no entry
\* under its key, for a record that is stored
ReadWithoutEntry(ops) ==
    /\ resp'.op \in ops
    /\ resp'.status # 403
    /\ ReadKey(resp') \notin DOMAIN cache
    /\ ReadTargetExists(resp')

\* the read answered with the records as now stored and cached that answer
ReadThrough ==
    /\ CacheMiss(resp')
    /\ resp'.info.data = CurrentData(resp)'
    /\ ReadKey(resp') \in DOMAIN cache'
    /\ CachedData(resp)' = resp'.info.data

(* C16: a cached read (property detail, listing detail, user-scoped list)
   that finds no entry for its key returns the serialization of the records
   as currently stored and then stores exactly that value under the key;
   a read that follows the loss of its cache entry does not fail and does
   not return data older than the stored records. *)
C16_MissReadsThrough ==
    [][/\ ReadWithoutEntry({"property_get", "listing_get", "userprop_list"})
             => ReadThrough
       /\ (/\ resp.op = "cache_evict"
           /\ resp'.op \in {"property_get", "listing_get", "userprop_list"}
           /\ resp'.status = 404) => ~ReadTargetExists(resp')]_vars

\* what holds: the property detail and the user-scoped list read through
MissReadsThroughButListing ==
    [][/\ ReadWithoutEntry({"property_get", "userprop_list"}) => ReadThrough
       /\ CacheMiss(resp') => ReadThrough]_vars

---------------------------------------------------------------------------
(* The profile and property-list caches of the users API *)

UserCacheRequesters == {"alice"}

UserCacheKeys ==
    {UserProfileKey("alice")}
        \cup {UserPropertiesKey("alice", f) : f \in PropertyFilters}

NextUserCache ==
    \/ \E who \in UserCacheRequesters :
          \/ UserViewSet_retrieve(who, "alice")
          \/ \E user_role \in UserRoles :
                UserViewSet_update(who, "alice", user_role, users["alice"].location)
          \/ \E filter \in PropertyFilters :
                UserPropertyViewSet_list(who, "alice", filter)
          \/ \E id \in UserPropIds :
                \/ \E property_type \in {"owned", "saved"} :
                      UserPropertyViewSet_create(who, "alice", id, 0, property_type)
                \/ \E title \in 0..1 :
                      UserPropertyViewSet_update(who, "alice", id, title)
                \/ UserPropertyViewSet_destroy(who, "alice", id)
    \/ \E key \in UserCacheKeys : CacheEvict(key)

SpecUserCache == Init /\ [][NextUserCache]_vars

\* the request was a completed write of the user's profile or of one of the
\* user's UserProperty records
UserWrite(r) ==
    \/ r.op = "user_update" /\ r.status = 200
    \/ r.op = "user_delete" /\ r.status = 204
    \/ r.op = "userprop_create" /\ r.status = 201
    \/ r.op = "userprop_update" /\ r.status = 200
    \/ r.op = "userprop_delete" /\ r.status = 204

(* C15: with requests executed one at a time, after any create, update or
   delete of a user's profile or of one of the user's UserProperty records
   through the users API, the next profile retrieve or property list for
   that user (for every filter value) returns data that reflects the write,
   never a cached pre-write response. *)
C15_ReadAfterWriteIsCurrent ==
    [][(UserWrite(resp) /\ resp'.status = 200
           /\ resp'.op \in {"user_retrieve", "userprop_list"}
           /\ resp'.info.target = resp.info.target) =>
          IF resp'.op = "user_retrieve"
          THEN resp'.info.data = UserSerializer_data(resp.info.target)'
          ELSE resp'.info.data = (UserPropertySerializer_data(
                   UserPropertyFiltered(resp.who, resp.info.target,
                                        resp.info.filter)))']_vars

\* what the invalidation does achieve: the keys it names are absent after
\* every completed write
C15_NamedKeysDeleted ==
    [][UserWrite(resp') =>
          \A prefix \in UserCachePrefixes :
              (prefix \o resp'.info.target) \notin DOMAIN cache']_vars

(* C17: deleting a Listing through the API deactivates it rather than
   hard-deleting it: after the delete request for a stored Listing the row
   still exists with is_active = false, and no delete request ever removes
   a Listing row. *)
C17_ListingDeleteDeactivates ==
    [][(resp'.op = "listing_delete" /\ resp'.id \in DOMAIN listings) =>
          /\ DOMAIN listings' = DOMAIN listings
          /\ ~listings'[resp'.id].is_active]_vars

(* C18: destroying a User through the API is a soft delete: the User row and
   all records owned by the user remain stored, and afterwards the user has
   account_status = 'deleted' and is_active = false; repeating the destroy
   leaves the same state. *)
C18_UserDestroyIsSoft ==
    [][(resp'.op = "user_delete" /\ resp'.status = 204) =>
          /\ DOMAIN users' = DOMAIN users
          /\ \A u \in DOMAIN users \ {resp'.info.target} : users'[u] = users[u]
          /\ users'[resp'.info.target] =
                [users[resp'.info.target] EXCEPT !.account_status = "deleted",
                                                 !.is_active = FALSE]
          /\ userProps' = userProps
          /\ listings' = listings
          /\ campaigns' = campaigns
          /\ messages' = messages
          /\ resp'.info.was_deleted => users' = users]_vars

\* a staff member has repeated the destroy of a user who was deleted
\* already and who owns a stored UserProperty
C18_Witness ==
    /\ resp.op = "user_delete"
    /\ resp.status = 204
    /\ resp.info.was_deleted
    /\ users[resp.info.target].account_status = "deleted"
    /\ ~users[resp.info.target].is_active
    /\ \E i \in DOMAIN userProps : userProps[i].user = resp.info.target

(* C19: a mark-read request for a message id that does not exist, or for a
   message whose recipient is not the requester (the sender included),
   returns 404 and leaves is_read and read_at of every Message unchanged. *)
C19_MarkReadNotFound ==
    [][(/\ resp'.op = "mark_read"
        /\ \/ resp'.id \notin DOMAIN messages
           \/ messages[resp'.id].recipient # resp'.who) =>
          /\ resp'.status = 404
          /\ messages' = messages]_vars

(* C19, for the requesters that pass IsAuthenticated: their mark-read request
   for a message id that does not exist, or for a message whose recipient
   is not the requester (the sender included), returns 404; a request that
   does not pass IsAuthenticated is answered 403 before the lookup; in both
   cases is_read and read_at of every Message are unchanged. *)
C19_MarkReadNotFoundOr403 ==
    [][(/\ resp'.op = "mark_read"
        /\ \/ resp'.id \notin DOMAIN messages
           \/ messages[resp'.id].recipient # resp'.who) =>
          /\ resp'.status = IF IsAuthenticated(resp'.who) THEN 404 ELSE 403
          /\ messages' = messages]_vars

\* the sender of a stored unread message has asked to mark it read and was
\* answered 404
C19_Witness ==
    /\ resp.op = "mark_read"
    /\ resp.status = 404
    /\ resp.id \in DOMAIN messages
    /\ messages[resp.id].sender = resp.who
    /\ messages[resp.id].recipient # resp.who
    /\ ~messages[resp.id].is_read
    /\ messages[resp.id].read_at = NullTime

---------------------------------------------------------------------------
(* Listing.save and days_on_market *)

\* the contract dates the saves supply: none, or a time of the clock up to
\* a day past its end
ContractDates == {NullTime} \cup (1..(MaxTime + TicksPerDay))

NextListing ==
    \/ Tick
    \/ Property_objects_create("p1", NYC)
    \/ \E id \in ListingIds, contract_date \in ContractDates :
          \/ Listing_save_insert(id, "p1", "alice", FormPrice, contract_date)
          \/ Listing_save_update(id, [contract_date |-> contract_date])

SpecListing == Init /\ [][NextListing]_vars

\* the step saved the Listing resp'.id
ListingSaved ==
    \/ resp'.op = "listing_orm_create" /\ resp'.info.result = "saved"
    \/ resp'.op = "listing_orm_save" /\ resp'.info.result = "saved"

(* C20: immediately after any save of a Listing that has a contract_date
   (the creating save as well as later updates), days_on_market equals the
   whole number of days from listed_date to contract_date. *)
C20_DaysOnMarketDerived ==
    [][(ListingSaved /\ listings'[resp'.id].contract_date # NullTime) =>
          listings'[resp'.id].days_on_market =
              timedelta_days(listings'[resp'.id].listed_date,
                             listings'[resp'.id].contract_date)]_vars

\* what the save does achieve: the derivation on every save of a row that
\* was stored before
C20_UpdateDerives ==
    [][(resp'.op = "listing_orm_save" /\ resp'.info.result = "saved"
           /\ listings'[resp'.id].contract_date # NullTime) =>
          listings'[resp'.id].days_on_market =
              timedelta_days(listings'[resp'.id].listed_date,
                             listings'[resp'.id].contract_date)]_vars

---------------------------------------------------------------------------
(* bulk_listing_upload: property/views.py *)

\* the longest 'listings' array a request submits
MaxItems == 2

\* the NULL foreign key of an instance built without a property
NoProperty == "null"

\* the items of a request: the keys the item supplies, and their values
BulkItems ==
    [supplied : {{"user", "price"}, {"user"}}, user : {"alice"},
     price : {FormPrice}]

\* request.data.get('listings', []): arrays of up to MaxItems items
BulkRequests ==
    UNION {[1..n -> BulkItems] : n \in 0..MaxItems}

\* ListingSerializer(data=item).is_valid(): user and price are required
\* fields, user must be the key of a stored User; property is read-only and
\* is not looked at
ListingSerializer_is_valid(item) ==
    /\ {"user", "price"} \subseteq item.supplied
    /\ item.user \in DOMAIN users

\* serializer.save(user=request.user): ModelSerializer.create goes through
\* Listing._default_manager (the manager the class was built with) with the
\* validated fields, in which there is no property; the NOT NULL column
\* property_id rejects the INSERT
ListingSerializer_save(ls, item, who) ==
    LET inst == NewListing(NoProperty, who, item.price, NullTime)
        saved == Listing_save(inst, TRUE, now)
        id == CHOOSE i \in ListingIds : i \notin DOMAIN ls
    IN  IF inst.property = NoProperty \/ saved.result # "saved"
        THEN [result |-> "IntegrityError", listings |-> ls]
        ELSE [result |-> "saved",
              listings |-> [i \in DOMAIN ls \cup {id} |->
                               IF i = id THEN saved.inst ELSE ls[i]]]

\* the loop over the submitted items: an invalid item is skipped, a valid one
\* is saved and counted, an exception of the save ends the request
RECURSIVE bulk_loop(_, _, _)
bulk_loop(items, who, ls) ==
    IF items = << >>
    THEN [result |-> "done", listings |-> ls, created |-> 0]
    ELSE IF ~ListingSerializer_is_valid(Head(items))
    THEN bulk_loop(Tail(items), who, ls)
    ELSE LET saved == ListingSerializer_save(ls, Head(items), who)
         IN  IF saved.result # "saved"
             THEN [result |-> saved.result, listings |-> ls, created |-> 0]
             ELSE LET rest == bulk_loop(Tail(items), who, saved.listings)
                  IN  [rest EXCEPT !.created = @ + 1]

\* the number of valid items of a request
RECURSIVE ValidItems(_)
ValidItems(items) ==
    IF items = << >> THEN 0
    ELSE (IF ListingSerializer_is_valid(Head(items)) THEN 1 ELSE 0)
             + ValidItems(Tail(items))

\* POST bulk upload (IsAuthenticated)
bulk_listing_upload(who, items) ==
    LET loop == bulk_loop(items, who, listings)
    IN  /\ UNCHANGED properties
        /\ ValidItems(items) <= Cardinality(ListingIds \ DOMAIN listings)
        /\ IF ~is_authenticated(who)
           THEN /\ resp' = Resp("bulk_upload", who, 0, 403, [items |-> items])
                /\ UNCHANGED <<listings, clusters, cache>>
           ELSE IF loop.result # "done"
           THEN /\ listings' = loop.listings
                /\ resp' = Resp("bulk_upload", who, 0, 500, [items |-> items])
                /\ UNCHANGED <<clusters, cache>>
           ELSE IF loop.created > 0
           THEN LET updated == update_map_clusters(clusters,
                                   cache_delete(cache, {"listing_list",
                                                        "listing_detail"}))
                IN  /\ listings' = loop.listings
                    /\ cache' = updated.cache
                    /\ UNCHANGED clusters
                    /\ resp' = Resp("bulk_upload", who, 0,
                                    IF updated.raised THEN 500 ELSE 201,
                                    [items |-> items])
           ELSE /\ resp' = Resp("bulk_upload", who, 0, 400, [items |-> items])
                /\ UNCHANGED <<listings, clusters, cache>>
        /\ OtherTablesUnchangedProperty

BulkRequesters == {"alice", Anon}

NextBulk ==
    \/ Property_objects_create("p1", NYC)
    \/ \E id \in ListingIds :
          \/ Listing_save_insert(id, "p1", "alice", FormPrice, NullTime)
          \/ ListingCreateView_post("alice", id, "p1", FormPrice)
          \/ ListingDetailView_get("alice", id)
    \/ \E id \in ClusterIds, center \in ClusterCenters, radius_km \in ClusterRadii,
          property_count \in 0..MaxCount, listing_count \in 0..MaxCount,
          avg_price \in {NullPrice, FormPrice} :
          MapClusterListCreateView_post("alice", id, center, radius_km,
                                        property_count, listing_count, avg_price)
    \/ \E who \in BulkRequesters, items \in BulkRequests :
          bulk_listing_upload(who, items)

SpecBulk == Init /\ [][NextBulk]_vars

(* C21: bulk_listing_upload treats each submitted item as an all-or-nothing
   row write: it creates exactly one Listing per valid item and nothing for
   an invalid item; when no item is valid it returns 400, creates no
   Listing, and neither recomputes map clusters nor deletes any cache
   key. *)
C21_BulkUploadPerItem ==
    [][(resp'.op = "bulk_upload" /\ is_authenticated(resp'.who)) =>
          IF ValidItems(resp'.info.items) = 0
          THEN /\ resp'.status = 400
               /\ UNCHANGED <<listings, clusters, cache>>
          ELSE /\ resp'.status = 201
               /\ Cardinality(DOMAIN listings') =
                     Cardinality(DOMAIN listings) + ValidItems(resp'.info.items)
               /\ DOMAIN listings \subseteq DOMAIN listings']_vars

\* the half that holds: a request with no valid item is answered 400 and
\* changes nothing, and no request creates a Listing for an invalid item
C21_NoValidItem ==
    [][(resp'.op = "bulk_upload" /\ is_authenticated(resp'.who)) =>
          /\ ValidItems(resp'.info.items) = 0 =>
                /\ resp'.status = 400
                /\ UNCHANGED <<listings, clusters, cache>>
          /\ Cardinality(DOMAIN listings') <=
                Cardinality(DOMAIN listings) + ValidItems(resp'.info.items)]_vars

---------------------------------------------------------------------------
(* The user-scoped list cache and its requesters *)

\* the owner of the list and a user who is neither the owner nor staff
ListRequesters == {"alice", "bob"}

NextUserList ==
    \/ \E id \in UserPropIds, title \in 0..1, property_type \in {"owned", "saved"} :
          UserPropertyViewSet_create("alice", "alice", id, title, property_type)
    \/ \E who \in ListRequesters, filter \in PropertyFilters :
          UserPropertyViewSet_list(who, "alice", filter)
    \/ \E key \in UserCacheKeys : CacheEvict(key)

SpecUserList == Init /\ [][NextUserList]_vars

\* the list request of a requester who is neither the owner nor staff
NonOwnerList(r) ==
    /\ r.op = "userprop_list"
    /\ r.status = 200
    /\ r.who # r.info.target
    /\ ~is_staff(r.who)

(* C22: for the user-scoped list endpoints the response depends only on the
   requester's authorization and the stored records, not on which requester
   populated the cache earlier: a non-owner non-staff requester never
   receives the owner's records, and the owner never receives the empty
   list computed for a non-owner. *)
C22_ListIndependentOfCachePopulator ==
    [][/\ NonOwnerList(resp') => resp'.info.data = << >>
       /\ (/\ NonOwnerList(resp)
           /\ ~resp.info.hit
           /\ resp'.op = "userprop_list"
           /\ resp'.status = 200
           /\ resp'.who = resp'.info.target
           /\ resp'.info.target = resp.info.target
           /\ resp'.info.filter = resp.info.filter) =>
             resp'.info.data = UserPropertySerializer_data(
                 UserPropertyFiltered(resp'.who, resp'.info.target,
                                      resp'.info.filter))]_vars

\* what the scoping does achieve: a list request that misses the cache
\* returns the requester's own view of the stored records
C22_MissIsScoped ==
    [][(resp'.op = "userprop_list" /\ resp'.status = 200 /\ ~resp'.info.hit) =>
          resp'.info.data = UserPropertySerializer_data(
              UserPropertyFiltered(resp'.who, resp'.info.target,
                                   resp'.info.filter))]_vars

---------------------------------------------------------------------------
(* Creates in the user-scoped collections: users/views.py *)

MapViewIds == 1..NumMapViews

\* POST on SavedMapViewViewSet: perform_create looks the route's user up and
\* saves the record for that user
SavedMapViewViewSet_create(who, user_id, id, name) ==
    /\ IsAuthenticated(who) => id \notin DOMAIN savedMapViews
    /\ IF ~IsAuthenticated(who)
       THEN /\ resp' = Resp("mapview_create", who, id, 403, [target |-> user_id])
            /\ UNCHANGED <<savedMapViews, cache>>
       ELSE IF user_id \notin DOMAIN users
       THEN /\ resp' = Resp("mapview_create", who, id, 404, [target |-> user_id])
            /\ UNCHANGED <<savedMapViews, cache>>
       ELSE /\ savedMapViews' = [i \in DOMAIN savedMapViews \cup {id} |->
                                   IF i = id
                                   THEN [user |-> user_id, name |-> name]
                                   ELSE savedMapViews[i]]
            /\ cache' = invalidate_user_cache(cache, user_id)
            /\ resp' = Resp("mapview_create", who, id, 201, [target |-> user_id])
    /\ UNCHANGED <<configs, campaigns, messages, properties, listings, users,
                   userProps, now, clusters, procs>>

\* SavedMapViewViewSet.get_queryset: the rows of the route's user, for that
\* user and for staff; no row for anybody else
SavedMapViewQueryset(who, user_id) ==
    IF who # user_id /\ ~is_staff(who)
    THEN {}
    ELSE {i \in DOMAIN savedMapViews : savedMapViews[i].user = user_id}

\* PUT/PATCH on SavedMapViewViewSet: get_object, serializer.save, then the
\* user's cache keys are deleted
SavedMapViewViewSet_update(who, user_id, id, name) ==
    /\ IF ~IsAuthenticated(who)
       THEN /\ resp' = Resp("mapview_update", who, id, 403, [target |-> user_id])
            /\ UNCHANGED <<savedMapViews, cache>>
       ELSE IF user_id \notin DOMAIN users \/ id \notin SavedMapViewQueryset(who, user_id)
       THEN /\ resp' = Resp("mapview_update", who, id, 404, [target |-> user_id])
            /\ UNCHANGED <<savedMapViews, cache>>
       ELSE /\ savedMapViews' = [savedMapViews EXCEPT ![id].name = name]
            /\ cache' = invalidate_user_cache(cache, user_id)
            /\ resp' = Resp("mapview_update", who, id, 200, [target |-> user_id])
    /\ UNCHANGED <<configs, campaigns, messages, properties, listings, users,
                   userProps, now, clusters, procs>>

\* DELETE on SavedMapViewViewSet: the user's cache keys are deleted, then the
\* row
SavedMapViewViewSet_destroy(who, user_id, id) ==
    /\ IF ~IsAuthenticated(who)
       THEN /\ resp' = Resp("mapview_delete", who, id, 403, [target |-> user_id])
            /\ UNCHANGED <<savedMapViews, cache>>
       ELSE IF user_id \notin DOMAIN users \/ id \notin SavedMapViewQueryset(who, user_id)
       THEN /\ resp' = Resp("mapview_delete", who, id, 404, [target |-> user_id])
            /\ UNCHANGED <<savedMapViews, cache>>
       ELSE /\ savedMapViews' = [i \in DOMAIN savedMapViews \ {id} |-> savedMapViews[i]]
            /\ cache' = invalidate_user_cache(cache, user_id)
            /\ resp' = Resp("mapview_delete", who, id, 204, [target |-> user_id])
    /\ UNCHANGED <<configs, campaigns, messages, properties, listings, users,
                   userProps, now, clusters, procs>>

NextSubresource ==
    \E who \in Requesters, target \in TargetUsers :
        \/ \E id \in UserPropIds, title \in 0..1 :
              UserPropertyViewSet_create(who, target, id, title,
                                         DefaultPropertyType)
        \/ \E id \in MapViewIds, name \in 0..1 :
              SavedMapViewViewSet_create(who, target, id, name)
        \/ \E id \in MapViewIds, name \in 0..1 :
              SavedMapViewViewSet_update(who, target, id, name)
        \/ \E id \in MapViewIds : SavedMapViewViewSet_destroy(who, target, id)

SpecSubresource == Init /\ [][NextSubresource]_vars

\* a create request addressed to a user by an authenticated requester who is
\* neither that user nor staff
ForeignCreate(r) ==
    /\ r.op \in {"userprop_create", "mapview_create"}
    /\ is_authenticated(r.who)
    /\ r.who # r.info.target
    /\ ~is_staff(r.who)

(* C23: for every user-scoped sub-resource collection, a create request
   addressed to user U by an authenticated requester who is neither U nor
   staff is rejected and creates no record owned by U. *)
C23_ForeignCreateRejected ==
    [][ForeignCreate(resp') =>
          /\ resp'.status \in {403, 404}
          /\ UNCHANGED <<userProps, savedMapViews>>]_vars

\* what holds: the collections whose perform_create compares the route's
\* user with the requester (properties among them) reject the request
C23_PropertyCreateRejected ==
    [][(ForeignCreate(resp') /\ resp'.op = "userprop_create") =>
          /\ resp'.status = 403
          /\ UNCHANGED userProps]_vars

---------------------------------------------------------------------------
(* AdCampaign: the REST routes and the server-rendered pages *)

\* GET api/ad-campaigns/<campaign_id>/ : the queryset holds the requester's
\* campaigns
AdCampaignDetailAPIView_get(who, id) ==
    /\ IF ~IsAuthenticated(who)
       THEN resp' = Resp("campaign_get", who, id, 403, NoInfo)
       ELSE IF id \notin CampaignQueryset(who)
       THEN resp' = Resp("campaign_get", who, id, 404, NoInfo)
       ELSE resp' = Resp("campaign_get", who, id, 200, [data |-> campaigns[id]])
    /\ UNCHANGED campaigns
    /\ OtherTablesUnchangedCampaign

\* GET ad-campaigns/<pk>/ : LoginRequiredMixin and model = AdCampaign, the
\* page of any row by pk
AdCampaignDetailView_get(who, id) ==
    /\ IF ~is_authenticated(who)
       THEN resp' = Resp("campaign_page", who, id, 302, NoInfo)
       ELSE IF id \notin DOMAIN campaigns
       THEN resp' = Resp("campaign_page", who, id, 404, NoInfo)
       ELSE resp' = Resp("campaign_page", who, id, 200, [data |-> campaigns[id]])
    /\ UNCHANGED campaigns
    /\ OtherTablesUnchangedCampaign

NextCampaignRoutes ==
    \E who \in CampaignRequesters, id \in CampaignIds, budget \in DecimalInputs :
        \/ AdCampaignListCreateAPIView_post(who, id, budget, budget, None)
        \/ AdCampaignDetailAPIView_get(who, id)
        \/ AdCampaignDetailAPIView_update(who, id, budget, budget, None)
        \/ AdCampaignDetailAPIView_destroy(who, id)
        \/ AdCampaignDetailView_get(who, id)
        \/ AdCampaignUpdateView_post(who, id, budget)

SpecCampaignRoutes == Init /\ [][NextCampaignRoutes]_vars

\* a request of a logged-in user for a stored campaign of another user
ForeignCampaignRequest(ops) ==
    /\ resp'.op \in ops
    /\ is_authenticated(resp'.who)
    /\ resp'.id \in DOMAIN campaigns
    /\ campaigns[resp'.id].user # resp'.who

(* C24: an AdCampaign is owner-only on every route: through the REST
   endpoints and through the server-rendered detail and update pages alike,
   a logged-in user who is not the campaign's owner can neither read nor
   modify the campaign. *)
C24_CampaignOwnerOnly ==
    [][ForeignCampaignRequest({"campaign_get", "campaign_update",
                               "campaign_delete", "campaign_page",
                               "campaign_form_update"}) =>
          /\ campaigns' = campaigns
          /\ resp'.status \in {403, 404}]_vars

\* what holds: the REST endpoints answer 404 for another user's campaign and
\* leave it as it is
C24_RestOwnerOnly ==
    [][ForeignCampaignRequest({"campaign_get", "campaign_update",
                               "campaign_delete"}) =>
          /\ campaigns' = campaigns
          /\ resp'.status = 404]_vars

---------------------------------------------------------------------------
(* Requests that run at the same time.  The database runs in autocommit
   (no ATOMIC_REQUESTS, no transaction.atomic in the handlers), so each ORM
   statement of a handler is a step of its own and the steps of two
   requests interleave. *)

\* the worker processes that serve requests
ProcIds == 1..NumProcs

\* the processes that are serving a request
Running == {p \in DOMAIN procs : procs[p].pc # "done"}

\* a worker that is free to take a request
Idle(p) == p \notin Running

\* the table of processes after p moves on with local state l
ProcsAfter(p, l) == [q \in DOMAIN procs \cup {p} |-> IF q = p THEN l ELSE procs[q]]

---------------------------------------------------------------------------
(* SystemConfig.save, statement by statement *)

\* a row write that deactivates the other active rows in the same statement
SystemConfig_write_row_exclusive(tbl, id, active) ==
    [i \in DOMAIN tbl \cup {id} |->
        IF i = id THEN active ELSE IF active THEN FALSE ELSE tbl[i]]

\* SystemConfig.objects.filter(is_active=True).exclude(config_id=...)
\*     .update(is_active=False), run when the instance is active
SystemConfig_deactivate_others(tbl, id, active) ==
    IF active
    THEN [i \in DOMAIN tbl |-> IF tbl[i] /\ i # id THEN FALSE ELSE tbl[i]]
    ELSE tbl

\* super().save(): the INSERT or UPDATE of the instance's own row
SystemConfig_write_row(tbl, id, active) ==
    [i \in DOMAIN tbl \cup {id} |-> IF i = id THEN active ELSE tbl[i]]

\* the rows the concurrent saves write
RaceConfigIds == {1, 2}

OtherTablesUnchangedRace ==
    UNCHANGED <<campaigns, messages, users, userProps, now, savedMapViews>>

\* a save is called on an instance (id, active)
SystemConfig_save_begin(p, id, active) ==
    /\ Idle(p)
    /\ procs' = ProcsAfter(p, [op |-> "config_save", pc |-> "deactivate",
                               id |-> id, active |-> active])
    /\ resp' = Resp("config_save_begin", Anon, id, 0, [proc |-> p])
    /\ UNCHANGED <<configs, properties, listings, clusters, cache>>
    /\ OtherTablesUnchangedRace

\* the UPDATE of the other rows
SystemConfig_save_deactivate(p) ==
    /\ p \in Running
    /\ procs[p].op = "config_save"
    /\ procs[p].pc = "deactivate"
    /\ configs' = SystemConfig_deactivate_others(configs, procs[p].id,
                                                 procs[p].active)
    /\ procs' = ProcsAfter(p, [procs[p] EXCEPT !.pc = "write"])
    /\ resp' = Resp("config_save_deactivate", Anon, procs[p].id, 0, [proc |-> p])
    /\ UNCHANGED <<properties, listings, clusters, cache>>
    /\ OtherTablesUnchangedRace

\* the write of the row itself
SystemConfig_save_write(p) ==
    /\ p \in Running
    /\ procs[p].op = "config_save"
    /\ procs[p].pc = "write"
    /\ configs' = SystemConfig_write_row(configs, procs[p].id, procs[p].active)
    /\ procs' = ProcsAfter(p, [procs[p] EXCEPT !.pc = "done"])
    /\ resp' = Resp("config_save_write", Anon, procs[p].id, 0,
                    [proc |-> p, active |-> procs[p].active,
                     pending |-> {q \in Running \ {p} : procs[q].pc = "write"}])
    /\ UNCHANGED <<properties, listings, clusters, cache>>
    /\ OtherTablesUnchangedRace

NextConfigRace ==
    \E p \in ProcIds :
        \/ \E id \in RaceConfigIds, active \in BOOLEAN :
              SystemConfig_save_begin(p, id, active)
        \/ SystemConfig_save_deactivate(p)
        \/ SystemConfig_save_write(p)

SpecConfigRace == Init /\ [][NextConfigRace]_vars

\* run without interleaving, the two statements are the save of the
\* sequential model
SaveStepsComposeToSave ==
    \A id \in RaceConfigIds, active \in BOOLEAN :
        SystemConfig_write_row(
            SystemConfig_deactivate_others(configs, id, active), id, active)
          = SystemConfig_save(configs, id, active)

(* C25: the single-active SystemConfig invariant is not concurrency-safe:
   when two saves of different rows, both with is_active = true, run
   simultaneously and each one's deactivate-others step comes before the
   other's row-write step, both rows have is_active = true afterwards. *)
C25_InterleavedSavesBothActive ==
    [][(/\ resp.op = "config_save_write"
        /\ resp'.op = "config_save_write"
        /\ resp'.info.proc \in resp.info.pending
        /\ resp.info.active
        /\ resp'.info.active
        /\ resp.id # resp'.id) =>
          /\ configs'[resp.id]
          /\ configs'[resp'.id]]_vars

\* two saves have run to the end, the second wrote its row after both had
\* deactivated, and two rows are active
C25_Witness ==
    /\ resp.op = "config_save_write"
    /\ resp.info.active
    /\ Running = {}
    /\ Cardinality(ActiveConfigs) = 2

---------------------------------------------------------------------------
(* update_map_clusters, statement by statement *)

\* the cluster the loop of a recomputation handles next
NextCluster_of(p) == CHOOSE c \in procs[p].todo : \A d \in procs[p].todo : c <= d

\* a request that calls update_map_clusters (the cluster list GET).  Two
\* fields of the process record are history, read by no step and no part
\* of what the request holds: peers, the recomputations in flight when this
\* one began, and seen, the Listing rows that were stored when it reached
\* line 54 (where the call raises before a listing is queried)
update_map_clusters_begin(p) ==
    /\ Idle(p)
    /\ procs' = ProcsAfter(p, [op |-> "recompute", pc |-> "load",
                               rows |-> [c \in {} |-> c], todo |-> {},
                               peers |-> Running, seen |-> {}])
    /\ resp' = Resp("recompute_begin", Anon, 0, 0, [proc |-> p])
    /\ UNCHANGED <<configs, properties, listings, clusters, cache>>
    /\ OtherTablesUnchangedRace

\* clusters = MapCluster.objects.all(), evaluated by the for statement
update_map_clusters_load(p) ==
    /\ p \in Running
    /\ procs[p].op = "recompute"
    /\ procs[p].pc = "load"
    /\ procs' = ProcsAfter(p, [procs[p] EXCEPT
                               !.pc = IF DOMAIN clusters = {} THEN "delete"
                                      ELSE "filter",
                               !.rows = clusters, !.todo = DOMAIN clusters])
    /\ resp' = Resp("recompute_load", Anon, 0, 0, [proc |-> p])
    /\ UNCHANGED <<configs, properties, listings, clusters, cache>>
    /\ OtherTablesUnchangedRace

\* listings = Listing.objects.within_radius(...) for the first cluster: the
\* call raises, and the request ends before an aggregate is read or a
\* cluster saved
update_map_clusters_filter(p) ==
    /\ p \in Running
    /\ procs[p].op = "recompute"
    /\ procs[p].pc = "filter"
    /\ LET c == NextCluster_of(p)
           found == Listing_objects_within_radius(procs[p].rows[c].center.lat,
                                                  procs[p].rows[c].center.lon,
                                                  procs[p].rows[c].radius_km)
       IN  /\ Raises(found)
           /\ procs' = ProcsAfter(p, [procs[p] EXCEPT !.pc = "done",
                                                      !.seen = DOMAIN listings])
           /\ \E error \in found :
                 resp' = Resp("recompute_done", Anon, c, 500,
                              [proc |-> p, error |-> error])
    /\ UNCHANGED <<configs, properties, listings, clusters, cache>>
    /\ OtherTablesUnchangedRace

\* cache.delete('map_clusters'), the last statement
update_map_clusters_delete(p) ==
    /\ p \in Running
    /\ procs[p].op = "recompute"
    /\ procs[p].pc = "delete"
    /\ cache' = cache_delete(cache, {"map_clusters"})
    /\ procs' = ProcsAfter(p, [procs[p] EXCEPT !.pc = "done"])
    /\ resp' = Resp("recompute_done", Anon, 0, 200, [proc |-> p])
    /\ UNCHANGED <<configs, properties, listings, clusters>>
    /\ OtherTablesUnchangedRace

NextClusterRace ==
    \/ Property_objects_create("p1", NYC)
    \/ \E id \in ListingIds :
          Listing_save_insert(id, "p1", "alice", FormPrice, NullTime)
    \/ \E id \in ClusterIds, property_count \in 0..MaxCount,
          listing_count \in 0..MaxCount, avg_price \in {NullPrice, FormPrice} :
          MapClusterListCreateView_post("alice", id, NYC, DefaultRadius,
                                        property_count, listing_count, avg_price)
    \/ \E p \in ProcIds :
          \/ update_map_clusters_begin(p)
          \/ update_map_clusters_load(p)
          \/ update_map_clusters_filter(p)
          \/ update_map_clusters_delete(p)

SpecClusterRace == Init /\ [][NextClusterRace]_vars

\* the recomputations p and q ran concurrently: one began while the other
\* was in flight
Overlapped(p, q) == p \in procs[q].peers \/ q \in procs[p].peers

\* the row of cluster c holds the aggregates of the listings of ids that the
\* conditions of the proximity filter select for it
HoldsAggregatesOf(c, ids) ==
    LET found == ClusterListings(c) \cap ids
    IN  /\ clusters[c].listing_count = Cardinality(found)
        /\ clusters[c].property_count =
              Cardinality({listings[i].property : i \in found})
        /\ IF found = {} THEN clusters[c].avg_price = 0
           ELSE clusters[c].avg_price * Cardinality(found) = SumPrices(found)

(* C26: cluster recomputation is read-then-write and not transactional:
   when two recomputations of the same MapCluster have run concurrently
   around a listing write (the listings stored when the one queried them
   are not those stored when the other did) and both have finished, the
   last save has won: the cluster holds the aggregates one of the two
   computed from the listings it queried, which can be those of the older
   listing set. *)
C26_LastWriteWins ==
    [][\A p, q \in DOMAIN procs', c \in DOMAIN clusters' :
          (/\ resp'.op = "recompute_done"
           /\ resp'.info.proc = p
           /\ q # p
           /\ procs'[q].op = "recompute"
           /\ procs'[q].pc = "done"
           /\ Overlapped(p, q)'
           /\ c \in DOMAIN procs'[p].rows
           /\ c \in DOMAIN procs'[q].rows
           /\ procs'[p].seen # procs'[q].seen) =>
              \/ HoldsAggregatesOf(c, procs[p].seen)'
              \/ HoldsAggregatesOf(c, procs[q].seen)']_vars

\* what holds: no recomputation, alone or concurrent, writes a MapCluster
\* row; every row keeps the aggregates it was created with
NoClusterRecomputed ==
    [][\A c \in DOMAIN clusters : clusters'[c] = clusters[c]]_vars

---------------------------------------------------------------------------
(* PropertyDetailView.get and the update, statement by statement *)

\* the property the concurrent requests address
RaceProperty == "p1"

OtherTablesUnchangedDetailRace ==
    UNCHANGED <<configs, listings, clusters, campaigns, messages, users,
                userProps, now, savedMapViews>>

\* GET: cached_data = cache.get(cache_key); a hit is the response
PropertyDetailView_get_lookup(p, id) ==
    /\ Idle(p)
    /\ IF PropertyDetailKey(id) \in DOMAIN cache
       THEN /\ procs' = ProcsAfter(p, [op |-> "property_get", pc |-> "done",
                                       id |-> id])
            /\ resp' = Resp("property_get_step", Anon, 0, 200,
                            [proc |-> p, target |-> id, hit |-> TRUE,
                             data |-> cache[PropertyDetailKey(id)]])
       ELSE /\ procs' = ProcsAfter(p, [op |-> "property_get", pc |-> "read",
                                       id |-> id])
            /\ resp' = Resp("property_get_step", Anon, 0, 0,
                            [proc |-> p, target |-> id, hit |-> FALSE])
    /\ UNCHANGED <<properties, cache>>
    /\ OtherTablesUnchangedDetailRace

\* GET: super().get() reads the record and serializes it
PropertyDetailView_get_read(p) ==
    /\ p \in Running
    /\ procs[p].op = "property_get"
    /\ procs[p].pc = "read"
    /\ IF procs[p].id \notin DOMAIN properties
       THEN /\ procs' = ProcsAfter(p, [procs[p] EXCEPT !.pc = "done"])
            /\ resp' = Resp("property_get_step", Anon, 0, 404,
                            [proc |-> p, target |-> procs[p].id])
       ELSE /\ procs' = ProcsAfter(p,
                   [op |-> "property_get", pc |-> "set", id |-> procs[p].id,
                    data |-> PropertySerializer_data(procs[p].id)])
            /\ resp' = Resp("property_get_step", Anon, 0, 0,
                            [proc |-> p, target |-> procs[p].id])
    /\ UNCHANGED <<properties, cache>>
    /\ OtherTablesUnchangedDetailRace

\* GET: cache.set(cache_key, response.data), then the response
PropertyDetailView_get_set(p) ==
    /\ p \in Running
    /\ procs[p].op = "property_get"
    /\ procs[p].pc = "set"
    /\ cache' = cache_set(cache, PropertyDetailKey(procs[p].id), procs[p].data)
    /\ procs' = ProcsAfter(p, [procs[p] EXCEPT !.pc = "done"])
    /\ resp' = Resp("property_get_step", Anon, 0, 200,
                    [proc |-> p, target |-> procs[p].id, hit |-> FALSE,
                     data |-> procs[p].data])
    /\ UNCHANGED properties
    /\ OtherTablesUnchangedDetailRace

\* PUT: get_object() loads the instance
PropertyDetailView_update_load(p, id, building_name) ==
    /\ Idle(p)
    /\ IF id \notin DOMAIN properties
       THEN /\ procs' = ProcsAfter(p, [op |-> "property_update", pc |-> "done",
                                       id |-> id])
            /\ resp' = Resp("property_update_step", Anon, 0, 404,
                            [proc |-> p, target |-> id])
       ELSE /\ procs' = ProcsAfter(p,
                   [op |-> "property_update", pc |-> "write", id |-> id,
                    inst |-> [properties[id] EXCEPT
                                 !.building_name = building_name]])
            /\ resp' = Resp("property_update_step", Anon, 0, 0,
                            [proc |-> p, target |-> id])
    /\ UNCHANGED <<properties, cache>>
    /\ OtherTablesUnchangedDetailRace

\* PUT: serializer.save() writes the row
PropertyDetailView_update_write(p) ==
    /\ p \in Running
    /\ procs[p].op = "property_update"
    /\ procs[p].pc = "write"
    /\ properties' = [i \in DOMAIN properties \cup {procs[p].id} |->
                         IF i = procs[p].id THEN procs[p].inst
                         ELSE properties[i]]
    /\ procs' = ProcsAfter(p, [procs[p] EXCEPT !.pc = "delete"])
    /\ resp' = Resp("property_update_step", Anon, 0, 0,
                    [proc |-> p, target |-> procs[p].id])
    /\ UNCHANGED cache
    /\ OtherTablesUnchangedDetailRace

\* PUT: invalidate_cache of the detail key
PropertyDetailView_update_delete(p) ==
    /\ p \in Running
    /\ procs[p].op = "property_update"
    /\ procs[p].pc = "delete"
    /\ cache' = invalidate_cache(cache, PropertyDetailKey(procs[p].id))
    /\ procs' = ProcsAfter(p, [procs[p] EXCEPT !.pc = "delete_list"])
    /\ resp' = Resp("property_update_step", Anon, 0, 0,
                    [proc |-> p, target |-> procs[p].id])
    /\ UNCHANGED properties
    /\ OtherTablesUnchangedDetailRace

\* PUT: invalidate_cache('property_list'), then the response
PropertyDetailView_update_delete_list(p) ==
    /\ p \in Running
    /\ procs[p].op = "property_update"
    /\ procs[p].pc = "delete_list"
    /\ cache' = invalidate_cache(cache, "property_list")
    /\ procs' = ProcsAfter(p, [procs[p] EXCEPT !.pc = "done"])
    /\ resp' = Resp("property_update_step", Anon, 0, 200,
                    [proc |-> p, target |-> procs[p].id])
    /\ UNCHANGED properties
    /\ OtherTablesUnchangedDetailRace

NextDetailRace ==
    \/ Property_objects_create(RaceProperty, NYC)
    \/ \E p \in ProcIds :
          \/ PropertyDetailView_get_lookup(p, RaceProperty)
          \/ PropertyDetailView_get_read(p)
          \/ PropertyDetailView_get_set(p)
          \/ \E building_name \in 0..1 :
                PropertyDetailView_update_load(p, RaceProperty, building_name)
          \/ PropertyDetailView_update_write(p)
          \/ PropertyDetailView_update_delete(p)
          \/ PropertyDetailView_update_delete_list(p)

SpecDetailRace == Init /\ [][NextDetailRace]_vars

(* C27: stale data is not served even when a read and a write interleave:
   if a detail GET that misses the cache and an update of the same Property
   run concurrently in any interleaving of their read-record, write-record,
   delete-key and set-key steps, then once both have finished any cache
   entry under that property's detail key equals the serialization of the
   updated record. *)
C27_NoStaleEntryAfterRace ==
    (/\ Running = {}
     /\ RaceProperty \in DOMAIN properties
     /\ PropertyDetailKey(RaceProperty) \in DOMAIN cache) =>
        cache[PropertyDetailKey(RaceProperty)]
            = PropertySerializer_data(RaceProperty)

---------------------------------------------------------------------------
(* Message.is_read and Message.read_at *)

(* C28: in every state reachable through the message operations (create,
   update through the message detail endpoint by sender or recipient,
   mark-read, viewing the message page), a Message has is_read = true if
   and only if its read_at is set. *)
C28_ReadFlagIffReadAt ==
    \A i \in DOMAIN messages :
        messages[i].is_read <=> messages[i].read_at # NullTime

---------------------------------------------------------------------------
(* Coordinates that are zero: users/models.py, property/views.py *)

\* a point on the equator and a point on the prime meridian
OnEquator == Point(0, -740060)

OnMeridian == Point(407128, 0)

ZeroPoints == {NYC, OnEquator, OnMeridian, Origin}

\* the UserProperty rows whose location lies in the box around a center
UserPropertiesInBox(center, distance_km) ==
    {i \in DOMAIN userProps :
        /\ KmPerDegree * (userProps[i].location.lat - center.lat)
               >= -(UnitsPerDegree * distance_km)
        /\ KmPerDegree * (userProps[i].location.lat - center.lat)
               <= UnitsPerDegree * distance_km
        /\ KmPerDegree * (userProps[i].location.lon - center.lon)
               >= -(UnitsPerDegree * distance_km)
        /\ KmPerDegree * (userProps[i].location.lon - center.lon)
               <= UnitsPerDegree * distance_km}

\* User.properties_nearby: the box is queried when
\* primary_location_latitude and primary_location_longitude are both truthy;
\* None and 0.0 are not
User_properties_nearby(u, distance_km) ==
    IF /\ HasPoint(users[u].location)
       /\ users[u].location.lat # 0
       /\ users[u].location.lon # 0
    THEN UserPropertiesInBox(users[u].location, distance_km)
    ELSE {}

\* UserProperty.objects.create(user=..., location_latitude=...,
\* location_longitude=...)
UserProperty_objects_create(id, user, location) ==
    /\ id \notin DOMAIN userProps
    /\ userProps' = [i \in DOMAIN userProps \cup {id} |->
                        IF i = id
                        THEN [user |-> user, is_active |-> TRUE, title |-> 0,
                              property_type |-> DefaultPropertyType,
                              location |-> location]
                        ELSE userProps[i]]
    /\ resp' = Resp("userprop_orm_create", user, id, 0, NoInfo)
    /\ UNCHANGED <<users, cache>>
    /\ OtherTablesUnchangedUser

\* one evaluation of user.properties_nearby(distance_km)
User_properties_nearby_call(u, distance_km) ==
    /\ resp' = Resp("properties_nearby", u, 0, 0,
                    [radius |-> distance_km,
                     result |-> User_properties_nearby(u, distance_km)])
    /\ UNCHANGED <<users, userProps, cache>>
    /\ OtherTablesUnchangedUser

\* the class statement of ListingListCreateView,
\* queryset = Listing.objects.active_listings(): it is evaluated when the
\* class body runs, at the import of property.views, and raises there; the
\* class is never created and none of its methods is entered
ListingListCreateView_queryset == Listing_objects_active_listings

\* GET on ListingListCreateView: the request ends with the exception of the
\* class statement, whatever its query parameters; get_queryset, with its
\* coordinate test, is not reached
ListingListCreateView_get(who, center) ==
    /\ \E error \in ListingListCreateView_queryset :
          resp' = Resp("listing_list", who, 0, 500,
                       [center |-> center, result |-> error])
    /\ UNCHANGED <<users, userProps, cache>>
    /\ OtherTablesUnchangedUser

\* POST on ListingListCreateView: the same class statement ends it;
\* perform_create does not run
ListingListCreateView_post(who) ==
    /\ \E error \in ListingListCreateView_queryset :
          resp' = Resp("listing_list_create", who, 0, 500, [result |-> error])
    /\ UNCHANGED <<users, userProps, cache>>
    /\ OtherTablesUnchangedUser

NextNearby ==
    \/ \E location \in ZeroPoints \cup {NoPoint} :
          UserViewSet_update("alice", "alice", users["alice"].user_role, location)
    \/ \E id \in UserPropIds, location \in ZeroPoints :
          UserProperty_objects_create(id, "bob", location)
    \/ User_properties_nearby_call("alice", DefaultRadius)
    \/ \E center \in ZeroPoints \cup {NoPoint} :
          ListingListCreateView_get("alice", center)
    \/ ListingListCreateView_post("alice")

SpecNearby == Init /\ [][NextNearby]_vars

(* C29: a coordinate value of 0 is treated like any other coordinate:
   whenever both latitude and longitude are supplied to the listing list
   endpoint, the result is restricted to the proximity box around them, and
   User.properties_nearby returns the box contents for every user whose
   primary location is set, also when the latitude or the longitude
   equals 0. *)
C29_ZeroIsACoordinate ==
    [][/\ (resp'.op = "properties_nearby" /\ HasPoint(users[resp'.who].location)) =>
             resp'.info.result =
                 UserPropertiesInBox(users[resp'.who].location, resp'.info.radius)
       /\ (resp'.op = "listing_list" /\ HasPoint(resp'.info.center)) =>
             /\ resp'.status = 200
             /\ resp'.info.result =
                    ListingManager_within_radius(resp'.info.center.lat,
                                                 resp'.info.center.lon,
                                                 DefaultRadius)]_vars

\* what holds: properties_nearby returns the box contents for a primary
\* location with no zero coordinate
C29_NonZeroNearby ==
    [][(/\ resp'.op = "properties_nearby"
        /\ HasPoint(users[resp'.who].location)
        /\ users[resp'.who].location.lat # 0
        /\ users[resp'.who].location.lon # 0) =>
          resp'.info.result =
              UserPropertiesInBox(users[resp'.who].location, resp'.info.radius)]_vars

====
